---- MODULE Spec2Model ----
(***************************************************************************)
(* Model of emodels: the offset-tracking text locator and the annotating   *)
(* item loader (emodels/scrapyutils.py), the table extraction engine       *)
(* (emodels/extract/table.py), the cluster extraction engine               *)
(* (emodels/extract/cluster.py), the combined extractor                    *)
(* (emodels/extract/combined.py), the per-class singleton of               *)
(* ModelWithDataset (emodels/datasets/models.py) and the per-class sample  *)
(* file of the sharded loader (emodels/scrapyutils/loader.py).             *)
(*                                                                         *)
(* Strings are sequences of one-character strings.  Offsets are Python     *)
(* offsets (0-based, end exclusive).                                       *)
(***************************************************************************)
EXTENDS Integers, Sequences, FiniteSets, TLC

VARIABLES
    markdown,         \* ExtractTextResponse.markdown of the response in use
    tr_result,        \* list returned by the last ExtractTextResponse.text_re call
    tr_windows,       \* capture windows of the matches of that call, in match order
    save_enabled,     \* config.EMODELS_SAVE_EXTRACT_ITEMS
    extract_indexes,  \* ExtractItemLoader.extract_indexes of the current loader
    values,           \* values collected by add_value of the current loader
    field_text,       \* text t of the tuple that recorded each field
    loaded,           \* load_item has been called on the current loader
    last_sample,      \* <<sample>> built by the last _save_extract_sample, if any
    partition,        \* records of <clsname>.jl.gz, in file order
    tb_tables,        \* the tables of the response, in document order
    tb_dedupe,        \* dedupe_keywords
    tb_max_tables,    \* max_tables
    tb_columns,       \* columns
    tb_constraints,   \* constraints
    tb_pc,            \* where parse_tables_from_response is
    tb_ranked,        \* what find_tables returned and the loop has yet to visit
    tb_seen,          \* seen
    tb_all_results,   \* all_results
    tb_table_count,   \* table_count
    tb_visited,       \* per loop pass made: its header and what it contributed
    sg_own,           \* per class of the ModelWithDataset hierarchy its own _self attribute
    sg_objects,       \* the class of every object created, in creation order
    sg_returned,      \* per class the objects its calls have returned
    sg_last,          \* the last call: the class called and what came of it
    cl_args,          \* extract_by_keywords: the matches of the keywords in the markdown
                      \* and the arguments keywords, required_fields, value_filters,
                      \* value_presets
    cl_pc,            \* where extract_by_keywords is
    cl_labels,        \* kmeans.labels_, <<>> when kmeans is None
    cl_groups,        \* groups
    cl_scored,        \* per group scored: its index, what it extracted and its score
    cl_max,           \* max_score, max_score_group and max_score_group_idx
    cl_filled,        \* max_score_group after the secondary fill
    cl_result,        \* what extract_by_keywords returned
    cb_args,          \* parse_combined_from_response: the matches of the columns in
                      \* response.markdown, value_filters and value_presets
    cb_pc,            \* where parse_combined_from_response is
    cb_to_combine,    \* results_to_combine
    cb_required,      \* required_fields
    cb_result,        \* what parse_combined_from_response returned
    sh_savefile,      \* per loader class its own savefile attribute: folder and file index
    sh_folders,       \* per folder of EMODELS_ITEMS_DIR its numbered files, each the
                      \* records appended to it
    sh_loaders        \* the loader classes that have a loader object

vars == <<markdown, tr_result, tr_windows, save_enabled, extract_indexes, values,
          field_text, loaded, last_sample, partition, tb_tables, tb_dedupe,
          tb_max_tables, tb_columns, tb_constraints, tb_pc, tb_ranked, tb_seen,
          tb_all_results, tb_table_count, tb_visited,
          sg_own, sg_objects, sg_returned, sg_last,
          cl_args, cl_pc, cl_labels, cl_groups, cl_scored, cl_max, cl_filled, cl_result,
          cb_args, cb_pc, cb_to_combine, cb_required, cb_result,
          sh_savefile, sh_folders, sh_loaders>>

\* The arguments of parse_tables_from_response and its locals.
table_args == <<tb_tables, tb_dedupe, tb_max_tables, tb_columns, tb_constraints>>
table_vars == <<table_args, tb_pc, tb_ranked, tb_seen, tb_all_results,
                tb_table_count, tb_visited>>

locate_vars == <<markdown, tr_result, tr_windows>>
loader_vars == <<save_enabled, extract_indexes, values, field_text, loaded,
                 last_sample, partition>>

singleton_vars == <<sg_own, sg_objects, sg_returned, sg_last>>

\* What the locator and the loader leave alone, what the table engine does,
\* and what the model classes do.
cluster_vars == <<cl_args, cl_pc, cl_labels, cl_groups, cl_scored, cl_max, cl_filled,
                  cl_result>>

combined_vars == <<cb_args, cb_pc, cb_to_combine, cb_required, cb_result>>

shard_vars == <<sh_savefile, sh_folders, sh_loaders>>

outside_loader == <<table_vars, singleton_vars, cluster_vars, combined_vars, shard_vars>>
outside_table ==
    <<locate_vars, loader_vars, singleton_vars, cluster_vars, combined_vars, shard_vars>>
outside_singleton ==
    <<locate_vars, loader_vars, table_vars, cluster_vars, combined_vars, shard_vars>>
outside_cluster ==
    <<locate_vars, loader_vars, table_vars, singleton_vars, combined_vars, shard_vars>>
outside_combined == <<locate_vars, loader_vars, singleton_vars, shard_vars>>
outside_shards ==
    <<locate_vars, loader_vars, table_vars, singleton_vars, cluster_vars, combined_vars>>

(***************************************************************************)
(* Bounds                                                                  *)
(***************************************************************************)
MaxTokens == 2          \* tokens of a document
MaxMatches == 2         \* matches one regex has in a document
MaxRecords == 2         \* records in the partition file
MaxValues == 2          \* values collected for one field of a loader

None == "none"
NoSample == <<>>

(***************************************************************************)
(* Strings                                                                 *)
(***************************************************************************)
Min(S) == CHOOSE x \in S : \A y \in S : x <= y
Max(S) == CHOOSE x \in S : \A y \in S : x >= y

\* s[a:b] for 0 <= a, b
Slice(s, a, b) == SubSeq(s, a + 1, b)

\* s[a:b] with Python's rules for negative and out-of-range offsets
PyIndex(n, i) == IF i < 0 THEN Max({0, n + i}) ELSE Min({n, i})
PySlice(s, a, b) == Slice(s, PyIndex(Len(s), a), PyIndex(Len(s), b))

IsSpace(c) == c \in {" ", "\n", "\t"}

\* The number of whitespace characters of s from offset i - 1 on, up to the
\* first other character; and back from offset i - 1, down to the last one.
RECURSIVE LeadingSpaces(_, _)
LeadingSpaces(s, i) ==
    IF i > Len(s) \/ ~IsSpace(s[i]) THEN i - 1 ELSE LeadingSpaces(s, i + 1)

RECURSIVE TrailingSpaces(_, _)
TrailingSpaces(s, i) ==
    IF i < 1 \/ ~IsSpace(s[i]) THEN Len(s) - i ELSE TrailingSpaces(s, i - 1)

\* len(s) - len(s.lstrip())
LStripCount(s) == LeadingSpaces(s, 1)

\* len(s) - len(s.rstrip())
RStripCount(s) == TrailingSpaces(s, Len(s))

\* s.strip()
Strip(s) ==
    IF LStripCount(s) = Len(s) THEN <<>>
    ELSE Slice(s, LStripCount(s), Len(s) - RStripCount(s))

(***************************************************************************)
(* COMMENT_RE = "<!--.+?-->"                                               *)
(***************************************************************************)
CommentOpen == <<"<", "!", "-", "-">>
CommentClose == <<"-", "-", ">">>

\* The literal lit occurs in s at offset i.
LitAt(s, lit, i) == i + Len(lit) <= Len(s) /\ \A k \in 1..Len(lit) : s[i + k] = lit[k]

\* Offsets j where a match of COMMENT_RE starting at i can place its "-->":
\* after "<!--" and at least one character, none of them a newline.
CloseOffsets(s, i) ==
    {j \in (i + 5)..Len(s) :
        /\ LitAt(s, CommentClose, j)
        /\ \A k \in (i + 4)..(j - 1) : s[k + 1] # "\n"}

\* COMMENT_RE matches at offset i; the lazy .+? ends at the first "-->".
CommentAt(s, i) == LitAt(s, CommentOpen, i) /\ CloseOffsets(s, i) # {}
CommentEnd(s, i) == Min(CloseOffsets(s, i)) + 3

\* COMMENT_RE.finditer(s) from offset pos: <<start, end>> of every match, the
\* scan going on at the end of a match, or one offset on where none starts.
RECURSIVE CommentsFrom(_, _)
CommentsFrom(s, pos) ==
    IF pos + 8 > Len(s) THEN <<>>
    ELSE IF CommentAt(s, pos)
         THEN LET end == CommentEnd(s, pos)
              IN  <<<<pos, end>>>> \o CommentsFrom(s, end)
         ELSE CommentsFrom(s, pos + 1)

COMMENT_RE_finditer(s) == CommentsFrom(s, 0)

\* s with the spans ms (ascending, disjoint) cut out, copying from offset pos.
RECURSIVE CutSpans(_, _, _)
CutSpans(s, ms, pos) ==
    IF ms = <<>> THEN Slice(s, pos, Len(s))
    ELSE Slice(s, pos, Head(ms)[1]) \o CutSpans(s, Tail(ms), Head(ms)[2])

\* COMMENT_RE.sub("", s)
COMMENT_RE_sub(s) == CutSpans(s, COMMENT_RE_finditer(s), 0)

COMMENT_RE_findall(s) == COMMENT_RE_finditer(s)

(***************************************************************************)
(* ExtractTextResponse.text_re.  A regex is given by the capture windows   *)
(* <<start, end>> of its matches in the markdown (group 1 when the regex   *)
(* has groups, else the whole match), in match order.                      *)
(***************************************************************************)
\* The whitespace-trimmed window: <<extracted, start, end>>.
TrimWindow(md, w) ==
    LET extracted == Slice(md, w[1], w[2])
    IN  <<Strip(extracted),
          w[1] + LStripCount(extracted),
          w[2] - RStripCount(extracted)>>

\* The match is kept: "if extracted:" after the trimming.
text_re_accepts(extracted) == extracted # <<>>

\* text_re_tuple without line 81: the end offset is not moved left by the
\* length of the comments removed.
text_re_tuple_end_kept(md, w) ==
    LET tw == TrimWindow(md, w)
    IN  <<COMMENT_RE_sub(tw[1]), tw[2], tw[3]>>

\* The tuple appended for one kept match.
ShrunkTuple(tw, new_extracted) ==
    <<new_extracted, tw[2], tw[3] - (Len(tw[1]) - Len(new_extracted))>>

text_re_tuple(md, w) ==
    ShrunkTuple(TrimWindow(md, w), COMMENT_RE_sub(TrimWindow(md, w)[1]))

RECURSIVE text_re(_, _)
text_re(md, windows) ==
    IF windows = <<>> THEN <<>>
    ELSE LET w == Head(windows)
         IN  (IF text_re_accepts(TrimWindow(md, w)[1])
              THEN <<text_re_tuple(md, w)>> ELSE <<>>)
             \o text_re(md, Tail(windows))

(***************************************************************************)
(* Documents and regexes drawn for the checks                              *)
(***************************************************************************)
Tokens == {
    <<"a">>,
    <<" ">>,
    <<"<", "!", "-", "-", "x", "-", "-", ">">>,
    <<"a", "<", "!", "-", "-", "x", "-", "-", ">">>,
    <<"<", "!", "-">>,
    <<"<", "!", "-", "-", "x", "-", "-", ">", "-", "y", "-", "-", ">">> }

RECURSIVE TokenStrings(_)
TokenStrings(n) ==
    IF n = 0 THEN {<<>>}
    ELSE LET shorter == TokenStrings(n - 1)
         IN  shorter \cup {s \o t : s \in shorter, t \in Tokens}

Markdowns == TokenStrings(MaxTokens)

\* Offsets of md where a token starts or ends: the ends of the capture windows.
Cuts(md) ==
    {i \in 0..Len(md) :
        \/ i \in {0, Len(md)}
        \/ \E t \in Tokens :
              LitAt(md, t, i) \/ (i >= Len(t) /\ LitAt(md, t, i - Len(t)))}

Windows(md) == {w \in Cuts(md) \X Cuts(md) : w[1] <= w[2]}

\* Capture windows of the successive (non-overlapping) matches of one regex
\* with at least one and at most n matches, none before offset from.
RECURSIVE WindowLists(_, _, _)
WindowLists(md, n, from) ==
    IF n = 0 THEN {}
    ELSE UNION {{<<w>> \o rest : rest \in {<<>>} \cup WindowLists(md, n - 1, w[2])} :
                   w \in {x \in Windows(md) : x[1] >= from}}

Regexes(md) == WindowLists(md, MaxMatches, 0)

(***************************************************************************)
(* ExtractTextResponse.text_id: the regex skip_prefix(.+?)<!--tid--> with  *)
(* the default skip_prefix [^a-zA-Z0-9$]*, matched by re.finditer.         *)
(***************************************************************************)
Tids == {<<"x">>, <<"y">>}

IsSkipChar(c) == c \notin {"a", "x", "y", "$"}

\* Longest run of skip_prefix characters from offset p.
SkipRun(md, p) ==
    Max({n \in 0..(Len(md) - p) : \A k \in 1..n : IsSkipChar(md[p + k])})

\* Offsets where the lazy group (.+?) opened at q can stop: the marker comes
\* next and the group holds at least one character, none of them a newline.
MarkerOffsets(md, lit, q) ==
    {c \in (q + 1)..Len(md) :
        /\ LitAt(md, lit, c)
        /\ \A k \in q..(c - 1) : md[k + 1] # "\n"}

\* Prefix lengths k with which a match starting at p succeeds.
PrefixChoices(md, lit, p) ==
    {k \in 0..SkipRun(md, p) : MarkerOffsets(md, lit, p + k) # {}}

\* Capture windows of the matches found from offset pos on.
RECURSIVE TextIdFrom(_, _, _)
TextIdFrom(md, lit, pos) ==
    LET starts == {p \in pos..Len(md) : PrefixChoices(md, lit, p) # {}}
    IN  IF starts = {} THEN <<>>
        ELSE LET p == Min(starts)
                 k == Max(PrefixChoices(md, lit, p))
                 c == Min(MarkerOffsets(md, lit, p + k))
             IN  <<<<p + k, c>>>> \o TextIdFrom(md, lit, c + Len(lit))

text_id_windows(md, tid) == TextIdFrom(md, CommentOpen \o tid \o CommentClose, 0)

text_id(md, tid) == text_re(md, text_id_windows(md, tid))

(***************************************************************************)
(* ExtractItemLoader: dictionaries are functions on the set of their keys. *)
(***************************************************************************)
Fields == {"f", "g"}

EmptyDict == <<>>
Keys(d) == DOMAIN d
Put(d, k, v) == [x \in Keys(d) \cup {k} |-> IF x = k THEN v ELSE d[x]]

\* Markdown().convert(t).strip() of add_text_re_as_html: a paragraph.
mconverter_convert(t) == <<"<", "p", ">">> \o t \o <<"<", "/", "p", ">">>

\* "if extracted:" then "if attr not in self.extract_indexes:"
records(indexes, attr, extracted) == extracted # <<>> /\ attr \notin Keys(indexes)

\* ItemLoader.add_value: the value joins the values collected for the field.
add_value(vals, attr, value) ==
    Put(vals, attr, IF attr \in Keys(vals) THEN Append(vals[attr], value) ELSE <<value>>)

\* The values collected for a field so far.
ValuesOf(vals, attr) == IF attr \in Keys(vals) THEN vals[attr] ELSE <<>>

\* The body shared by add_text_re, add_text_id and add_text_re_as_html:
\* extracted is the list the response returned, as_html the variant.
\* add_text_re and add_text_id call add_value for every first tuple
\* extracted (lines 110, 119), add_text_re_as_html only when it records the
\* field (line 127).
AddExtracted(attr, extracted, as_html) ==
    /\ Len(ValuesOf(values, attr)) < MaxValues
    /\ IF extracted = <<>>
       THEN UNCHANGED <<extract_indexes, values, field_text>>
       ELSE LET t == extracted[1][1]
                s == extracted[1][2]
                e == extracted[1][3]
                recording == records(extract_indexes, attr, extracted)
            IN  /\ extract_indexes' = IF recording THEN Put(extract_indexes, attr, <<s, e>>)
                                      ELSE extract_indexes
                /\ field_text' = IF recording THEN Put(field_text, attr, t) ELSE field_text
                /\ values' = IF as_html
                             THEN IF recording
                                  THEN add_value(values, attr, mconverter_convert(t))
                                  ELSE values
                             ELSE add_value(values, attr, t)

(***************************************************************************)
(* ExtractItemLoader._save_extract_sample                                  *)
(***************************************************************************)
\* sorted(self.extract_indexes.items(), key=start) as <<s, e, attr>> tuples;
\* entries with equal start are taken in any one order (the sample built
\* is a dictionary, so that order does not show).
RECURSIVE SortedIndexes(_)
SortedIndexes(indexes) ==
    IF Keys(indexes) = {} THEN <<>>
    ELSE LET first == CHOOSE a \in Keys(indexes) :
                          \A b \in Keys(indexes) : indexes[a][1] <= indexes[b][1]
             rest == [x \in Keys(indexes) \ {first} |-> indexes[x]]
         IN  <<<<indexes[first][1], indexes[first][2], first>>>>
             \o SortedIndexes(rest)

\* comment_is_after with the comparison of line 144 turned round.
comment_is_after_reversed(m_start, s) == m_start < s

\* The loop test "m.start() > sorted_indexes[0][0]" of line 144.
comment_is_after(m_start, s) == m_start > s

\* The loop over the comments ms of the original markdown (lines 141-147),
\* then the final loop (lines 149-151): <<markdown, new_indexes>>.
RECURSIVE StripLoop(_, _, _, _, _)
StripLoop(md, ms, sorted_indexes, new_indexes, accum) ==
    IF ms = <<>>
    THEN IF sorted_indexes = <<>> THEN <<md, new_indexes>>
         ELSE LET x == Head(sorted_indexes)
              IN  StripLoop(md, ms, Tail(sorted_indexes),
                            Put(new_indexes, x[3], <<x[1] - accum, x[2] - accum>>),
                            accum)
    ELSE LET m == Head(ms)
         IN  IF sorted_indexes # <<>> /\ comment_is_after(m[1], Head(sorted_indexes)[1])
             THEN LET x == Head(sorted_indexes)
                  IN  StripLoop(md, ms, Tail(sorted_indexes),
                                Put(new_indexes, x[3], <<x[1] - accum, x[2] - accum>>),
                                accum)
             ELSE StripLoop(Slice(md, 0, m[1] - accum) \o Slice(md, m[2] - accum, Len(md)),
                            Tail(ms), sorted_indexes, new_indexes,
                            accum + (m[2] - m[1]))

\* The sample of lines 153-156.
SampleOf(stripped) == [markdown |-> stripped[1], indexes |-> stripped[2]]

BuildSample(md, indexes) ==
    SampleOf(StripLoop(md, COMMENT_RE_finditer(md), SortedIndexes(indexes), EmptyDict, 0))

\* "if EMODELS_SAVE_EXTRACT_ITEMS and self.extract_indexes:"
saves(enabled, indexes) == enabled /\ Keys(indexes) # {}

\* file_append with the file opened "wt": the record replaces the file.
file_append_truncating(file, sample) == <<sample>>

\* gzip.open(..., "at"): the record goes to the end of the file.
file_append(file, sample) == Append(file, sample)

(***************************************************************************)
(* Model classes (emodels/datasets/models.py): ModelWithDataset, which is  *)
(* abstract, and concrete classes derived from it, one of them through two *)
(* others.  An object is its number in creation order, from 1; the _self   *)
(* attribute of a class names an object, or is None, or is not set on the  *)
(* class itself.                                                           *)
(***************************************************************************)
NoObject == 0
Unset == -1

Classes == {"ModelWithDataset", "ParentModel", "ChildModel", "GrandchildModel", "OtherModel"}
AbstractClasses == {"ModelWithDataset"}
ConcreteClasses == Classes \ AbstractClasses

BaseOf(c) ==
    CASE c = "ParentModel" -> "ModelWithDataset"
      [] c = "ChildModel" -> "ParentModel"
      [] c = "GrandchildModel" -> "ChildModel"
      [] c = "OtherModel" -> "ModelWithDataset"

\* The classes an attribute of c is looked up in, c first.
RECURSIVE Mro(_)
Mro(c) == IF c = "ModelWithDataset" THEN <<c>> ELSE <<c>> \o Mro(BaseOf(c))

\* cls._self: the attribute of the first class of the mro that has its own.
ClassAttr(own, c) ==
    LET mro == Mro(c)
        first == CHOOSE i \in 1..Len(mro) :
                     /\ own[mro[i]] # Unset
                     /\ \A j \in 1..(i - 1) : own[mro[j]] = Unset
    IN  own[mro[first]]

(***************************************************************************)
(* The locator alone: text_re or text_id called once on a response (the    *)
(* calls read nothing but the markdown).                                   *)
(***************************************************************************)
\* No response is being searched.
LocateIdle == markdown = <<>> /\ tr_result = None /\ tr_windows = None

\* No model class has been called.
SingletonIdle ==
    /\ sg_own = [c \in Classes |-> IF c = "ModelWithDataset" THEN NoObject ELSE Unset]
    /\ sg_objects = <<>>
    /\ sg_returned = [c \in Classes |-> {}]
    /\ sg_last = <<>>

\* extract_by_keywords is not under way.
ClusterAtRest ==
    /\ cl_pc = "idle"
    /\ cl_labels = <<>>
    /\ cl_groups = <<>>
    /\ cl_scored = <<>>
    /\ cl_max = <<>>
    /\ cl_filled = <<>>
    /\ cl_result = <<>>

ClusterIdle == cl_args = <<>> /\ ClusterAtRest

\* No loader class of the sharded loader has been used.
ShardIdle ==
    /\ sh_savefile = <<>>
    /\ sh_folders = <<>>
    /\ sh_loaders = {}

\* parse_combined_from_response is not in use.
CombinedIdle ==
    /\ cb_args = <<>>
    /\ cb_pc = "idle"
    /\ cb_to_combine = <<>>
    /\ cb_required = <<>>
    /\ cb_result = <<>>

\* Nothing but the component a specification is about is in use.
OthersIdle == SingletonIdle /\ ClusterIdle /\ CombinedIdle /\ ShardIdle

\* No table extraction is under way.
TableIdle ==
    /\ tb_tables = <<>>
    /\ tb_dedupe = <<>>
    /\ tb_max_tables = 1
    /\ tb_columns = <<>>
    /\ tb_constraints = None
    /\ tb_pc = "idle"
    /\ tb_ranked = <<>>
    /\ tb_seen = {}
    /\ tb_all_results = <<>>
    /\ tb_table_count = 0
    /\ tb_visited = <<>>

LoaderIdle ==
    /\ save_enabled = TRUE
    /\ extract_indexes = EmptyDict
    /\ values = EmptyDict
    /\ field_text = EmptyDict
    /\ loaded = FALSE
    /\ last_sample = NoSample
    /\ partition = <<>>

InitLocate ==
    /\ markdown \in Markdowns
    /\ tr_result = None
    /\ tr_windows = None
    /\ LoaderIdle
    /\ OthersIdle
    /\ TableIdle

CallTextRe ==
    /\ tr_result = None
    /\ \E windows \in Regexes(markdown) :
        /\ tr_windows' = windows
        /\ tr_result' = text_re(markdown, windows)
    /\ UNCHANGED <<markdown, loader_vars, outside_loader>>

CallTextId ==
    /\ tr_result = None
    /\ \E tid \in Tids :
        /\ tr_windows' = text_id_windows(markdown, tid)
        /\ tr_result' = text_id(markdown, tid)
    /\ UNCHANGED <<markdown, loader_vars, outside_loader>>

NextLocate == CallTextRe \/ CallTextId

SpecLocate == InitLocate /\ [][NextLocate]_vars

(***************************************************************************)
(* The loader: sessions on one response, one after the other.              *)
(***************************************************************************)
\* ExtractItemLoader.__init__
NewLoader ==
    /\ loaded
    /\ extract_indexes' = EmptyDict
    /\ values' = EmptyDict
    /\ field_text' = EmptyDict
    /\ loaded' = FALSE
    /\ last_sample' = NoSample
    /\ UNCHANGED <<locate_vars, save_enabled, partition, outside_loader>>

add_text_re(attr, windows) ==
    /\ AddExtracted(attr, text_re(markdown, windows), FALSE)
    /\ UNCHANGED <<locate_vars, save_enabled, loaded, last_sample, partition, outside_loader>>

add_text_id(attr, tid) ==
    /\ AddExtracted(attr, text_id(markdown, tid), FALSE)
    /\ UNCHANGED <<locate_vars, save_enabled, loaded, last_sample, partition, outside_loader>>

add_text_re_as_html(attr, windows) ==
    /\ AddExtracted(attr, text_re(markdown, windows), TRUE)
    /\ UNCHANGED <<locate_vars, save_enabled, loaded, last_sample, partition, outside_loader>>

AddTextRe == \E attr \in Fields, w \in Windows(markdown) : add_text_re(attr, <<w>>)

AddTextId == \E attr \in Fields, tid \in Tids : add_text_id(attr, tid)

AddTextReAsHtml ==
    \E attr \in Fields, w \in Windows(markdown) : add_text_re_as_html(attr, <<w>>)

\* load_item that ends the session: the recorded spans are dropped once
\* the sample is written.
LoadItemClosing ==
    /\ Len(partition) < MaxRecords
    /\ loaded' = TRUE
    /\ IF saves(save_enabled, extract_indexes)
       THEN \E sample \in {BuildSample(markdown, extract_indexes)} :
                /\ last_sample' = <<sample>>
                /\ partition' = file_append(partition, sample)
       ELSE UNCHANGED <<last_sample, partition>>
    /\ extract_indexes' = EmptyDict
    /\ values' = EmptyDict
    /\ field_text' = EmptyDict
    /\ UNCHANGED <<locate_vars, save_enabled, outside_loader>>

\* load_item, with _save_extract_sample
LoadItem ==
    /\ Len(partition) < MaxRecords
    /\ loaded' = TRUE
    /\ IF saves(save_enabled, extract_indexes)
       THEN \E sample \in {BuildSample(markdown, extract_indexes)} :
                /\ last_sample' = <<sample>>
                /\ partition' = file_append(partition, sample)
       ELSE UNCHANGED <<last_sample, partition>>
    /\ UNCHANGED <<locate_vars, extract_indexes, values, field_text, save_enabled, outside_loader>>

\* The loader sessions work on a document of one token.
LoaderDocs == Tokens

InitLoader ==
    /\ markdown \in LoaderDocs
    /\ tr_result = None
    /\ tr_windows = None
    /\ save_enabled \in BOOLEAN
    /\ extract_indexes = EmptyDict
    /\ values = EmptyDict
    /\ field_text = EmptyDict
    /\ loaded = FALSE
    /\ last_sample = NoSample
    /\ partition = <<>>
    /\ TableIdle
    /\ OthersIdle

NextLoader == AddTextRe \/ AddTextId \/ AddTextReAsHtml \/ LoadItem

SpecLoader == InitLoader /\ [][NextLoader]_vars

(***************************************************************************)
(* The sample store: loaders of one item class created one after the       *)
(* other on a response, each field extracted with the regex (.+) under     *)
(* re.S, whose one match is the whole document.                            *)
(***************************************************************************)
WholeDocument(md) == <<<<0, Len(md)>>>>

StoreAddTextRe == \E attr \in Fields : add_text_re(attr, WholeDocument(markdown))

NextStore == NewLoader \/ StoreAddTextRe \/ LoadItem

SpecStore == InitLoader /\ [][NextStore]_vars

(***************************************************************************)
(* Finalize: a loader on a document, after add_text_re has recorded some   *)
(* of the fields (each from the one match of its regex), calls load_item.  *)
(***************************************************************************)
\* The tuples text_re returns first for the regexes with one match.
FirstTuples(md) ==
    {extracted[1] : extracted \in {text_re(md, <<w>>) : w \in Windows(md)} \ {<<>>}}

InitFinalize ==
    /\ markdown \in Markdowns
    /\ tr_result = None
    /\ tr_windows = None
    /\ save_enabled = TRUE
    /\ \E recorded \in SUBSET Fields, tuples \in {FirstTuples(markdown)} :
         \E got \in [recorded -> tuples] :
            /\ extract_indexes = [a \in recorded |-> <<got[a][2], got[a][3]>>]
            /\ values = [a \in recorded |-> <<got[a][1]>>]
            /\ field_text = [a \in recorded |-> got[a][1]]
    /\ loaded = FALSE
    /\ last_sample = NoSample
    /\ partition = <<>>
    /\ TableIdle
    /\ OthersIdle

NextFinalize == LoadItem

SpecFinalize == InitFinalize /\ [][NextFinalize]_vars

(***************************************************************************)
(* Table extraction engine (emodels/extract/table.py)                      *)
(*                                                                         *)
(* A cell text is a string taken whole.  A row is the texts of its cells   *)
(* and the href of each of its links; a table is the sequence of its rows. *)
(* A result is a Python dict, which keeps the order its keys were inserted *)
(* in: a sequence of <<key, value>> with no key twice.                     *)
(***************************************************************************)
MAX_HEADER_COLUMNS == 20

DictKeys(d) == {d[i][1] : i \in 1..Len(d)}
DictGet(d, k) == d[CHOOSE i \in 1..Len(d) : d[i][1] = k][2]
DictSet(d, k, v) ==
    IF k \in DictKeys(d)
    THEN [i \in 1..Len(d) |-> IF d[i][1] = k THEN <<k, v>> ELSE d[i]]
    ELSE Append(d, <<k, v>>)
DictPop(d, k) == SelectSeq(d, LAMBDA p : p[1] # k)

\* d.update(pairs) with the pairs taken in order; dict(pairs) from the empty dict.
RECURSIVE DictUpdate(_, _)
DictUpdate(d, pairs) ==
    IF pairs = <<>> THEN d
    ELSE DictUpdate(DictSet(d, pairs[1][1], pairs[1][2]), Tail(pairs))

Zip(a, b) == [i \in 1..Min({Len(a), Len(b)}) |-> <<a[i], b[i]>>]

\* str.lower on the cell texts in use.
Lower(t) == IF t = "ISIN" THEN "isin" ELSE t
LowerAll(row) == [i \in 1..Len(row) |-> Lower(row[i])]

\* list(filter(None, row))
FilterNone(row) == SelectSeq(row, LAMBDA t : t # "")

\* The response is http://example.com/; urljoin on the hrefs in use, and
\* whether the text of the response's netloc occurs in a url.
ResponseNetloc == "example.com"
urljoin(url) == IF url = "/x" THEN "http://example.com/x" ELSE url
NetlocIn(url) ==
    url \in {"http://example.com/x", "mailto:a@example.com", "http://other.org/?from=example.com"}
IsMailto(url) == url = "mailto:a@example.com"

extract_row_text(row) == row.cells

\* iterate_rows: per row its cell texts and its links, mailto links left out,
\* the others made absolute when the response's url is passed.
iterate_rows(table, joined) ==
    [i \in 1..Len(table) |->
        LET hrefs == SelectSeq(table[i].hrefs, LAMBDA u : ~IsMailto(u))
        IN  <<extract_row_text(table[i]),
              [j \in 1..Len(hrefs) |-> IF joined THEN urljoin(hrefs[j]) ELSE hrefs[j]]>>]

\* sorted(items, key=..., reverse=True) on items <<payload, key>> whose keys
\* are tuples of integers of one length: descending, equal keys keep their order.
KeyGreater(a, b) ==
    \E i \in 1..Len(a) : a[i] > b[i] /\ \A j \in 1..(i - 1) : a[j] = b[j]

RECURSIVE SortedReverse(_)
SortedReverse(items) ==
    IF items = <<>> THEN <<>>
    ELSE LET i == CHOOSE k \in 1..Len(items) :
                     /\ \A j \in 1..Len(items) : ~KeyGreater(items[j][2], items[k][2])
                     /\ \A j \in 1..(k - 1) : KeyGreater(items[k][2], items[j][2])
             rest == [j \in 1..(Len(items) - 1) |-> IF j < i THEN items[j] ELSE items[j + 1]]
         IN  <<items[i]>> \o SortedReverse(rest)

Payloads(items) == [i \in 1..Len(items) |-> items[i][1]]

\* find_table_headers: the rows of at most MAX_HEADER_COLUMNS non-empty cells,
\* best first by the number of candidate fields found among the lowered cells.
find_table_headers(table, candidate_fields) ==
    LET rows == iterate_rows(table, FALSE)
        row_score(rowtexts) ==
            Cardinality({k \in 1..Len(candidate_fields) :
                \E c \in 1..Len(rowtexts) : Lower(rowtexts[c]) = candidate_fields[k]})
        eligible == SelectSeq(rows, LAMBDA r : Len(FilterNone(r[1])) <= MAX_HEADER_COLUMNS)
        score_rows == [i \in 1..Len(eligible) |->
                          <<eligible[i][1], <<row_score(eligible[i][1])>>>>]
    IN  Payloads(SortedReverse(score_rows))

\* find_tables takes element [0] of find_table_headers for every table.
find_tables_raises(tables, candidate_fields) ==
    \E t \in 1..Len(tables) : find_table_headers(tables[t], candidate_fields) = <<>>

\* The tables walked in document order.
Reversed_skipped(items) == items

\* tables[::-1], line 55
Reversed(items) == [i \in 1..Len(items) |-> items[Len(items) + 1 - i]]

\* find_tables: <<table, headers>> best first by (score1, score2), the tables
\* walked last to first.
find_tables(tables, candidate_fields) ==
    LET n == Len(tables)
        entry(t) ==
            LET headers == find_table_headers(tables[t], candidate_fields)[1]
                score1 == Cardinality({f \in {candidate_fields[k] : k \in 1..Len(candidate_fields)} :
                              f # "" /\ \E c \in 1..Len(headers) : Lower(headers[c]) = f})
                score2 == Len(FilterNone(headers))
            IN  <<<<t, headers>>, <<score1, score2>>>>
        reversed == Reversed([i \in 1..n |-> entry(i)])
        scored_tables == SelectSeq(reversed, LAMBDA e : e[2][1] <= MAX_HEADER_COLUMNS)
    IN  Payloads(SortedReverse(scored_tables))

\* extract_urls: the last link holding the netloc under "url", the last other
\* link under "website", keys in the order they were first set.
RECURSIVE extract_urls_from(_, _)
extract_urls_from(url_data, urls) ==
    IF urls = <<>> THEN url_data
    ELSE extract_urls_from(
             DictSet(url_data, IF NetlocIn(urls[1]) THEN "url" ELSE "website", urls[1]),
             Tail(urls))
extract_urls(urls) == extract_urls_from(<<>>, urls)

\* The header row taken for a data row.
is_header_row_never(row, headers) == FALSE

\* row == headers, lines 88 and 106: the header row, met again or not, yields nothing.
is_header_row(row, headers) == row = headers

\* parse_table: the rows after the first row equal to headers that have as
\* many cells as headers and are not that row again.
RECURSIVE parse_table_from(_, _, _)
parse_table_from(rows, headers, header_find_status) ==
    IF rows = <<>> THEN <<>>
    ELSE LET row == rows[1][1]
             urls == rows[1][2]
             before_header == ~header_find_status /\ row # headers
             yields == /\ ~before_header
                       /\ ~is_header_row(row, headers)
                       /\ Len(row) = Len(headers)
             data == DictUpdate(<<>>, Zip(LowerAll(headers), row) \o extract_urls(urls))
             rest == parse_table_from(Tail(rows), headers, ~before_header)
         IN  IF yields THEN <<data>> \o rest ELSE rest
parse_table(table, headers) == parse_table_from(iterate_rows(table, TRUE), headers, FALSE)

\* parse_table_ii: the same on headers and rows with their empty cells dropped,
\* and with no test of the number of cells.
RECURSIVE parse_table_ii_from(_, _, _)
parse_table_ii_from(rows, headers, header_find_status) ==
    IF rows = <<>> THEN <<>>
    ELSE LET row == FilterNone(rows[1][1])
             urls == rows[1][2]
             before_header == ~header_find_status /\ row # headers
             yields == ~before_header /\ ~is_header_row(row, headers)
             data == DictUpdate(<<>>, Zip(LowerAll(headers), row) \o extract_urls(urls))
             rest == parse_table_ii_from(Tail(rows), headers, ~before_header)
         IN  IF yields THEN <<data>> \o rest ELSE rest
parse_table_ii(table, headers) ==
    parse_table_ii_from(iterate_rows(table, TRUE), FilterNone(headers), FALSE)

default_validate_result(result, columns) == TRUE

\* score_results on results that carry the table they were parsed from.
RECURSIVE score_results(_)
score_results(results) ==
    IF results = <<>> THEN 0
    ELSE Cardinality({k \in DictKeys(results[1].data) : k # ""}) + score_results(Tail(results))

InTuple(x, tuple) == \E i \in 1..Len(tuple) : tuple[i] = x

\* unique_id: the (key, value) pairs of the non-empty values in the order the
\* result holds its keys; uid keeps those of the dedupe keywords.
full_uid_of(result) == SelectSeq(result, LAMBDA p : p[2] # "")
uid_of(result, dedupe_keywords) ==
    SelectSeq(result, LAMBDA p : p[2] # "" /\ InTuple(p[1], dedupe_keywords))
unique_id(result, dedupe_keywords) ==
    <<uid_of(result, dedupe_keywords), full_uid_of(result)>>

\* result.setdefault(field, "") for every field of a set.
RECURSIVE SetDefaults(_, _)
SetDefaults(result, fields) ==
    IF fields = {} THEN result
    ELSE LET field == CHOOSE f \in fields : TRUE
         IN  SetDefaults(IF field \in DictKeys(result) THEN result
                         ELSE Append(result, <<field, "">>),
                         fields \ {field})

\* The empty fields left in place.
remove_all_empty_fields_skipped(results) == results

\* remove_all_empty_fields: pops the fields whose value is empty in every result.
remove_all_empty_fields(results) ==
    LET fields == UNION {DictKeys(results[i].data) : i \in 1..Len(results)}
        all_empty_fields ==
            {f \in fields : \A i \in 1..Len(results) : DictGet(results[i].data, f) = ""}
    IN  [i \in 1..Len(results) |->
            [results[i] EXCEPT !.data = SelectSeq(@, LAMBDA p : p[1] \notin all_empty_fields)]]

\* What one parse method yields over all the tables, each result with the
\* table it was parsed from.
Candidates(tables, headers, second_method) ==
    LET of_table(t) ==
            LET parsed == IF second_method THEN parse_table_ii(tables[t], headers)
                          ELSE parse_table(tables[t], headers)
            IN  [i \in 1..Len(parsed) |-> [data |-> parsed[i], from_table |-> t]]
        upto[t \in 0..Len(tables)] == IF t = 0 THEN <<>> ELSE upto[t - 1] \o of_table(t)
    IN  upto[Len(tables)]

\* The uid is looked up in seen as it is, empty or not.
is_seen(uid, seen) == uid \in seen

TargetColumns == <<"isin", "name">>

\* Constraints: a dict field -> pattern, a pattern taken as the set of the
\* values it accepts.  apply_constraints is true of a result that has a
\* constrained field whose value its pattern rejects.
apply_constraints(result, constraints) ==
    \E i \in 1..Len(constraints) :
        /\ constraints[i][1] \in DictKeys(result)
        /\ DictGet(result, constraints[i][1]) \notin constraints[i][2]

\* The call parameters the loop body reads besides the tables.
CallParams(columns, dedupe_keywords, constraints) ==
    [columns |-> columns, dedupe_keywords |-> dedupe_keywords, constraints |-> constraints]

\* Line 184: the result is left out when constraints are given and
\* apply_constraints is true of it.
fails_constraints(result, constraints) ==
    constraints # None /\ apply_constraints(result, constraints)

\* Lines 177-187 over the results of one method: a result passes when it is
\* valid and neither of its ids is in seen, its non-empty ids are then added
\* to seen, and it is kept unless the constraints leave it out.
RECURSIVE AcceptResults(_, _, _)
AcceptResults(candidates, params, acc) ==
    IF candidates = <<>> THEN acc
    ELSE LET result == candidates[1]
             ids == unique_id(result.data, params.dedupe_keywords)
             uid == ids[1]
             fuid == ids[2]
             passes == /\ default_validate_result(result.data, params.columns)
                       /\ ~is_seen(uid, acc.seen)
                       /\ ~is_seen(fuid, acc.seen)
             remembered == [acc EXCEPT
                              !.seen = @ \cup (IF uid # <<>> THEN {uid} ELSE {})
                                         \cup (IF fuid # <<>> THEN {fuid} ELSE {})]
             next == IF ~passes THEN acc
                     ELSE IF fails_constraints(result.data, params.constraints)
                          THEN remembered
                          ELSE [remembered EXCEPT
                                  !.results = Append(@, result),
                                  !.fields = @ \cup DictKeys(result.data)]
         IN  AcceptResults(Tail(candidates), params, next)

\* The later method winning the ties.
scores_higher_or_equal(results_method, results_kept) ==
    score_results(results_method) >= score_results(results_kept)

\* Line 188: score_results(all_table_results_method) > score_results(all_table_results)
scores_higher(results_method, results_kept) ==
    score_results(results_method) > score_results(results_kept)

\* Lines 174-189, the loop over parse_table and parse_table_ii: each method
\* runs on all the tables with the seen and the fields the one before left,
\* and its list replaces the list kept when it scores higher.
RECURSIVE RunMethods(_, _, _, _, _)
RunMethods(methods, tables, headers, params, st) ==
    IF methods = <<>> THEN st
    ELSE LET ran == AcceptResults(Candidates(tables, headers, methods[1]), params,
                                  [results |-> <<>>, seen |-> st.seen, fields |-> st.fields])
             better == scores_higher(ran.results, st.all_table_results)
         IN  RunMethods(Tail(methods), tables, headers, params,
                        [all_table_results |-> IF better THEN ran.results
                                               ELSE st.all_table_results,
                         seen |-> ran.seen,
                         fields |-> ran.fields,
                         by_method |-> Append(st.by_method, ran.results)])

\* The body of the loop over the ranked headers, lines 172-193: both methods
\* in turn, then the results kept are given every field either method saw
\* and relieved of the fields empty in all.
VisitHeader(tables, headers, params, seen) ==
    LET st == RunMethods(<<FALSE, TRUE>>, tables, headers, params,
                         [all_table_results |-> <<>>, seen |-> seen, fields |-> {},
                          by_method |-> <<>>])
        filled == [i \in 1..Len(st.all_table_results) |->
                      [st.all_table_results[i] EXCEPT !.data = SetDefaults(@, st.fields)]]
    IN  [results |-> remove_all_empty_fields(filled), seen |-> st.seen,
         parsed |-> st.all_table_results, by_method |-> st.by_method]

(***************************************************************************)
(* Inputs of the table engine                                              *)
(***************************************************************************)
MaxRows == 2            \* rows of a table
MaxDocTables == 3       \* tables of a response
MaxTablesArg == 2       \* largest max_tables passed

MkRow(cells, hrefs) == [cells |-> cells, hrefs |-> hrefs]

RowPool ==
    { MkRow(<<"ISIN", "name">>, <<>>),
      MkRow(<<"name", "isin">>, <<>>),
      MkRow(<<"a", "a">>, <<"/x", "mailto:a@example.com">>),
      MkRow(<<"b", "">>, <<"http://other.org/">>) }

RECURSIVE SeqsUpTo(_, _)
SeqsUpTo(S, n) ==
    IF n = 0 THEN {<<>>}
    ELSE LET shorter == SeqsUpTo(S, n - 1)
         IN  shorter \cup {Append(s, x) : s \in shorter, x \in S}

\* The tables of at most max_rows rows and the documents of at most
\* max_tables such tables.
TablePool(max_rows) == SeqsUpTo(RowPool, max_rows)
Documents(max_tables, max_rows) == SeqsUpTo(TablePool(max_rows), max_tables)
DedupeChoices == {<<>>, <<"isin">>, <<"isin", "name">>}

(***************************************************************************)
(* SpecTable: one call of parse_tables_from_response, a step per pass of   *)
(* its loop over the ranked headers.                                       *)
(***************************************************************************)
InitTable ==
    /\ markdown = <<>>
    /\ tr_result = None
    /\ tr_windows = None
    /\ LoaderIdle
    /\ OthersIdle
    /\ tb_tables \in Documents(MaxDocTables, MaxRows)
    /\ tb_dedupe \in DedupeChoices
    /\ tb_max_tables \in 1..MaxTablesArg
    /\ tb_columns = TargetColumns
    /\ tb_constraints = None
    /\ tb_pc = "start"
    /\ tb_ranked = <<>>
    /\ tb_seen = {}
    /\ tb_all_results = <<>>
    /\ tb_table_count = 0
    /\ tb_visited = <<>>

\* Lines 165-171: no table, nothing to do; else find_tables ranks the headers
\* or raises the IndexError of a table with no eligible row.
FindTables ==
    /\ tb_pc = "start"
    /\ IF tb_tables = <<>>
       THEN tb_pc' = "returned" /\ tb_ranked' = <<>>
       ELSE IF find_tables_raises(tb_tables, tb_columns)
            THEN tb_pc' = "raised" /\ tb_ranked' = <<>>
            ELSE LET ranked == find_tables(tb_tables, tb_columns)
                 IN  /\ tb_ranked' = ranked
                     /\ tb_pc' = IF ranked = <<>> THEN "returned" ELSE "loop"
    /\ UNCHANGED <<table_args, tb_seen, tb_all_results, tb_table_count, tb_visited,
                   outside_table>>

\* The loop stopping one contributing pass late.
reached_max_tables_late(table_count, max_tables) == table_count = max_tables + 1

\* table_count == max_tables, line 197.
reached_max_tables(table_count, max_tables) == table_count = max_tables

\* Lines 194-198 after a pass: results join all_results and count once, and
\* the loop ends at the break or with the last ranked header.
AfterPass(pass, all_results, table_count, max_tables, last) ==
    LET contributes == pass.results # <<>>
        count == IF contributes THEN table_count + 1 ELSE table_count
    IN  [all_results |-> IF contributes THEN all_results \o pass.results ELSE all_results,
         table_count |-> count,
         seen |-> pass.seen,
         results |-> pass.results,
         parsed |-> pass.parsed,
         by_method |-> pass.by_method,
         pc |-> IF (contributes /\ reached_max_tables(count, max_tables)) \/ last
                THEN "returned" ELSE "loop"]

\* Lines 171-199 for the next ranked header: the pass, then either the break
\* or the next header, and the return when none is left.
ParseRankedHeader ==
    /\ tb_pc = "loop"
    /\ \E after \in {AfterPass(VisitHeader(tb_tables, tb_ranked[1][2],
                                            CallParams(tb_columns, tb_dedupe, tb_constraints),
                                            tb_seen),
                                tb_all_results, tb_table_count, tb_max_tables,
                                Tail(tb_ranked) = <<>>)} :
           /\ tb_seen' = after.seen
           /\ tb_all_results' = after.all_results
           /\ tb_table_count' = after.table_count
           /\ tb_visited' = Append(tb_visited, [headers |-> tb_ranked[1][2],
                                                parsed |-> after.parsed,
                                                by_method |-> after.by_method,
                                                results |-> after.results])
           /\ tb_ranked' = Tail(tb_ranked)
           /\ tb_pc' = after.pc
    /\ UNCHANGED <<table_args, outside_table>>

NextTable == FindTables \/ ParseRankedHeader

SpecTable == InitTable /\ [][NextTable]_vars

(***************************************************************************)
(* SpecMethods: the same call on tables that open with a header row, of    *)
(* two named cells or of two empty ones, over rows that fit the header     *)
(* cell for cell and rows that fit it once their empty cells are dropped.  *)
(***************************************************************************)
MaxMethodRows == 2      \* rows below the header row of a table
MaxMethodTables == 2    \* tables of the response

MethodHeaders == {MkRow(<<"ISIN", "name">>, <<>>), MkRow(<<"", "">>, <<>>)}
MethodRows == {MkRow(<<"a", "b">>, <<>>), MkRow(<<"b", "", "a">>, <<>>)}
MethodTables(max_rows) ==
    {<<h>> \o rows : h \in MethodHeaders, rows \in SeqsUpTo(MethodRows, max_rows)}

InitMethods ==
    /\ markdown = <<>>
    /\ tr_result = None
    /\ tr_windows = None
    /\ LoaderIdle
    /\ OthersIdle
    /\ tb_tables \in SeqsUpTo(MethodTables(MaxMethodRows), MaxMethodTables)
    /\ tb_dedupe = <<>>
    /\ tb_max_tables \in 1..MaxTablesArg
    /\ tb_columns = TargetColumns
    /\ tb_constraints = None
    /\ tb_pc = "start"
    /\ tb_ranked = <<>>
    /\ tb_seen = {}
    /\ tb_all_results = <<>>
    /\ tb_table_count = 0
    /\ tb_visited = <<>>

SpecMethods == InitMethods /\ [][NextTable]_vars

(***************************************************************************)
(* SpecConstrained: the same call with constraints, on tables under the    *)
(* header ISIN | name whose rows share an isin and differ in a name that   *)
(* the constraint on name accepts or rejects.                              *)
(***************************************************************************)
ConstrainedHeader == MkRow(<<"ISIN", "name">>, <<>>)
ConstrainedRows == {MkRow(<<"a", "bad">>, <<>>), MkRow(<<"a", "good">>, <<>>),
                    MkRow(<<"b", "good">>, <<>>)}
ConstrainedTables(max_rows) ==
    {<<ConstrainedHeader>> \o rows : rows \in SeqsUpTo(ConstrainedRows, max_rows)}
ConstraintsChoices == {None, <<<<"name", {"good"}>>>>}

InitConstrained ==
    /\ markdown = <<>>
    /\ tr_result = None
    /\ tr_windows = None
    /\ LoaderIdle
    /\ OthersIdle
    /\ tb_tables \in SeqsUpTo(ConstrainedTables(MaxMethodRows), MaxMethodTables)
    /\ tb_dedupe \in {<<>>, <<"isin">>}
    /\ tb_max_tables \in 1..MaxTablesArg
    /\ tb_columns = TargetColumns
    /\ tb_constraints \in ConstraintsChoices
    /\ tb_pc = "start"
    /\ tb_ranked = <<>>
    /\ tb_seen = {}
    /\ tb_all_results = <<>>
    /\ tb_table_count = 0
    /\ tb_visited = <<>>

SpecConstrained == InitConstrained /\ [][NextTable]_vars

(***************************************************************************)
(* SpecScenarioA: the same call on a response whose only table is the      *)
(* header row symbol | isin | name and rows of three non-empty cells with  *)
(* no links, no two of them equal, columns being (symbol, isin, name) and  *)
(* dedupe_keywords and constraints left to their defaults.                 *)
(***************************************************************************)
MaxDataRows == 2        \* rows below the header row

ScenarioColumns == <<"symbol", "isin", "name">>
ScenarioHeader == MkRow(ScenarioColumns, <<>>)
ScenarioCells == {"a", "b"}
ScenarioRows ==
    {MkRow(<<c1, c2, c3>>, <<>>) : c1 \in ScenarioCells, c2 \in ScenarioCells,
                                   c3 \in ScenarioCells} \cup {ScenarioHeader}

DistinctRows(rows) == \A i, j \in 1..Len(rows) : i # j => rows[i] # rows[j]

InitScenarioA ==
    /\ markdown = <<>>
    /\ tr_result = None
    /\ tr_windows = None
    /\ LoaderIdle
    /\ OthersIdle
    /\ \E rows \in {r \in SeqsUpTo(ScenarioRows, MaxDataRows) : DistinctRows(r)} :
           tb_tables = <<<<ScenarioHeader>> \o rows>>
    /\ tb_dedupe = <<>>
    /\ tb_max_tables \in 1..MaxTablesArg
    /\ tb_columns = ScenarioColumns
    /\ tb_constraints = None
    /\ tb_pc = "start"
    /\ tb_ranked = <<>>
    /\ tb_seen = {}
    /\ tb_all_results = <<>>
    /\ tb_table_count = 0
    /\ tb_visited = <<>>

SpecScenarioA == InitScenarioA /\ [][NextTable]_vars

(***************************************************************************)
(* SpecLinks: the same call on tables under the header ISIN | name whose   *)
(* rows carry links: to the response's host, to another host, to another   *)
(* host with the response's host in the query, and a mailto link.          *)
(***************************************************************************)
MaxLinkRows == 2        \* rows below the header row of a table
MaxLinkTables == 2      \* tables of the response

LinkHeader == MkRow(<<"ISIN", "name">>, <<>>)
LinkRows ==
    { MkRow(<<"a", "n">>, <<"/x">>),
      MkRow(<<"b", "n">>, <<"http://other.org/">>),
      MkRow(<<"c", "n">>, <<"mailto:a@example.com", "/x", "http://other.org/">>),
      MkRow(<<"d", "n">>, <<"http://other.org/?from=example.com">>),
      MkRow(<<"e", "n">>, <<"mailto:a@example.com">>) }
LinkTables(max_rows) == {<<LinkHeader>> \o rows : rows \in SeqsUpTo(LinkRows, max_rows)}

InitLinks ==
    /\ markdown = <<>>
    /\ tr_result = None
    /\ tr_windows = None
    /\ LoaderIdle
    /\ OthersIdle
    /\ tb_tables \in SeqsUpTo(LinkTables(MaxLinkRows), MaxLinkTables)
    /\ tb_dedupe = <<>>
    /\ tb_max_tables \in 1..MaxTablesArg
    /\ tb_columns = TargetColumns
    /\ tb_constraints = None
    /\ tb_pc = "start"
    /\ tb_ranked = <<>>
    /\ tb_seen = {}
    /\ tb_all_results = <<>>
    /\ tb_table_count = 0
    /\ tb_visited = <<>>

SpecLinks == InitLinks /\ [][NextTable]_vars

(***************************************************************************)
(* Cluster extraction engine (emodels/extract/cluster.py)                  *)
(*                                                                         *)
(* A match of a keyword is the label it is filed under, the texts of its   *)
(* first and of its last group and its span; texts are sequences of        *)
(* characters.  A deny pattern and a value used as a pattern are literal   *)
(* texts.                                                                  *)
(***************************************************************************)
StartsWith(s, prefix) ==
    Len(prefix) <= Len(s) /\ SubSeq(s, 1, Len(prefix)) = prefix

EndsWith(s, suffix) ==
    Len(suffix) <= Len(s) /\ SubSeq(s, Len(s) - Len(suffix) + 1, Len(s)) = suffix

\* The characters of s from offset i - 1 on that are in chars, up to the first
\* that is not; and back from offset i - 1.
RECURSIVE LeadingIn(_, _, _)
LeadingIn(s, chars, i) ==
    IF i > Len(s) \/ s[i] \notin chars THEN i - 1 ELSE LeadingIn(s, chars, i + 1)

RECURSIVE TrailingIn(_, _, _)
TrailingIn(s, chars, i) ==
    IF i < 1 \/ s[i] \notin chars THEN Len(s) - i ELSE TrailingIn(s, chars, i - 1)

\* s.strip(chars)
StripChars(s, chars) ==
    LET lead == LeadingIn(s, chars, 1)
    IN  IF lead = Len(s) THEN <<>>
        ELSE Slice(s, lead, Len(s) - TrailingIn(s, chars, Len(s)))

\* str.lower on one character, and two texts equal but for the case.
CharLower(c) ==
    CASE c = "A" -> "a" [] c = "B" -> "b" [] c = "C" -> "c" [] OTHER -> c
TextLower(s) == [i \in 1..Len(s) |-> CharLower(s[i])]

\* w in v, and re.search(w, v) for a literal w
Contains(v, w) ==
    \E i \in 0..(Len(v) - Len(w)) : SubSeq(v, i + 1, i + Len(w)) = w

\* re.sub(w, "", v, flags=re.I) for a literal, non-empty w: the occurrences
\* of w in v, case apart, cut out left to right without overlap.
RECURSIVE SubOut(_, _)
SubOut(v, w) ==
    IF Len(v) < Len(w) THEN v
    ELSE IF TextLower(SubSeq(v, 1, Len(w))) = TextLower(w)
         THEN SubOut(SubSeq(v, Len(w) + 1, Len(v)), w)
         ELSE <<v[1]>> \o SubOut(Tail(v), w)

Stars == <<"*", "*">>

\* _select_group: the text of the last group cleaned of its padding and of
\* its ** marks, and the score of the cleaning.  The score counts the
\* padding and the leading **; the comparison made for the trailing **
\* is between the text already assigned and itself.
select_group(m) ==
    IF StartsWith(m.first, <<"|", " ", "|">>) THEN <<<<>>, 0>>
    ELSE LET text0 == m.text
             new_text1 == StripChars(Strip(text0), {"|", " ", "\n"})
             score1 == IF new_text1 # text0 THEN 1 ELSE 0
             new_text2 == IF StartsWith(new_text1, Stars)
                          THEN SubSeq(new_text1, 3, Len(new_text1)) ELSE new_text1
             score2 == IF new_text2 # new_text1 THEN score1 + 1 ELSE score1
             text3 == IF EndsWith(new_text2, Stars)
                      THEN SubSeq(new_text2, 1, Len(new_text2) - 2) ELSE new_text2
             score3 == IF text3 # text3 THEN score2 + 1 ELSE score2
         IN  <<text3, score3>>

\* The keywords in use: the label their matches are filed under ("title" for
\* a keyword with a #), the field they require, and their text as a pattern.
KeywordLabel(keyword) == IF keyword = "^#" THEN "title" ELSE keyword
KeywordField(keyword) == IF keyword = "^#" THEN "title" ELSE keyword
FieldText(field) ==
    CASE field = "code" -> <<"c", "o", "d", "e">>
      [] field = "name" -> <<"n", "a", "m", "e">>
      [] field = "title" -> <<"t", "i", "t", "l", "e">>
      [] OTHER -> <<>>

\* dict.get(k, default) on a dict kept as a sequence of <<key, value>>
DictGetOr(d, k, default) == IF k \in DictKeys(d) THEN DictGet(d, k) ELSE default

\* KMeans(...).fit(features): labels_ as a function of the matches and
\* cluster_centers_, a centre kept as <<sum of starts, sum of ends, members>>.
Members(labels, c) == {i \in 1..Len(labels) : labels[i] = c}
Centre(matches, labels, c) ==
    LET upto[i \in 0..Len(matches)] ==
            IF i = 0 THEN <<0, 0, 0>>
            ELSE IF labels[i] = c
                 THEN <<upto[i - 1][1] + matches[i].span[1],
                        upto[i - 1][2] + matches[i].span[2],
                        upto[i - 1][3] + 1>>
                 ELSE upto[i - 1]
    IN  upto[Len(matches)]

\* The square of the distance from a span to a centre, times the square of
\* the number of members of the centre.
ScaledDistance(span, centre) ==
    (centre[3] * span[1] - centre[1]) * (centre[3] * span[1] - centre[1])
    + (centre[3] * span[2] - centre[2]) * (centre[3] * span[2] - centre[2])

\* What a fit may end in: every cluster has a member and no span is nearer to
\* the centre of another cluster than to that of its own.
IsFit(matches, labels, n_clusters) ==
    /\ \A c \in 0..(n_clusters - 1) : Members(labels, c) # {}
    /\ \A i \in 1..Len(matches) : \A c \in 0..(n_clusters - 1) :
           LET own == Centre(matches, labels, labels[i])
               other == Centre(matches, labels, c)
           IN  ScaledDistance(matches[i].span, own) * other[3] * other[3]
                   <= ScaledDistance(matches[i].span, other) * own[3] * own[3]

Fits(matches, n_clusters) ==
    {labels \in [1..Len(matches) -> 0..(n_clusters - 1)] : IsFit(matches, labels, n_clusters)}

\* max_groups: the most matches any one keyword has.
max_groups_of(matches, keywords) ==
    Max({0} \cup {Cardinality({i \in 1..Len(matches) : matches[i].keyword = keywords[k]}) :
                     k \in 1..Len(keywords)})

\* groups: -1 with no match first, then the clusters in the order their
\* first match comes, each with (label of the keyword, match) in match order.
RECURSIVE GroupsFrom(_, _, _, _)
GroupsFrom(groups, matches, labels, i) ==
    IF i > Len(matches) THEN groups
    ELSE GroupsFrom(DictSet(groups, labels[i],
                            Append(DictGetOr(groups, labels[i], <<>>),
                                   <<KeywordLabel(matches[i].keyword), matches[i]>>)),
                    matches, labels, i + 1)

apply_kmeans_clustering(matches, labels) ==
    GroupsFrom(<<<<-1, <<>>>>>>, matches, labels, 1)

\* Lines 137-141: the matches of a group none of the deny patterns of their
\* field finds in their cleaned text.
is_denied(k, m, value_filters) ==
    LET patterns == DictGetOr(value_filters, k, <<>>)
    IN  \E v \in 1..Len(patterns) : Contains(select_group(m)[1], patterns[v])

filter_results(results, value_filters) ==
    SelectSeq(results, LAMBDA r : ~is_denied(r[1], r[2], value_filters))

\* Lines 142-144: per label the (text, score) of its matches, in match order.
RECURSIVE ExtractedData(_, _)
ExtractedData(extracted_data, results) ==
    IF results = <<>> THEN extracted_data
    ELSE ExtractedData(DictSet(extracted_data, results[1][1],
                               Append(DictGetOr(extracted_data, results[1][1], <<>>),
                                      select_group(results[1][2]))),
                       Tail(results))

\* _best_values_dict: per field the value of the last candidate whose score
\* is at least that of every candidate before it.
RECURSIVE BestValue(_, _, _)
BestValue(vv_scores, max_score, best_value) ==
    IF vv_scores = <<>> THEN best_value
    ELSE IF vv_scores[1][2] >= max_score
         THEN BestValue(Tail(vv_scores), vv_scores[1][2], vv_scores[1][1])
         ELSE BestValue(Tail(vv_scores), max_score, best_value)

best_values_dict(extracted_data) ==
    [i \in 1..Len(extracted_data) |->
        <<extracted_data[i][1], BestValue(extracted_data[i][2], 0, <<>>)>>]

\* Line 129: required_fields followed by the field of every keyword.
all_required_fields(required_fields, keywords) ==
    required_fields \o [k \in 1..Len(keywords) |-> KeywordField(keywords[k])]

\* A point lost for every preset the extracted value equals.
preset_bonus_lost(extracted_dict, value_presets) ==
    0 - Cardinality({i \in 1..Len(value_presets) :
                        /\ value_presets[i][1] \in DictKeys(extracted_dict)
                        /\ DictGet(extracted_dict, value_presets[i][1]) = value_presets[i][2]})

\* Lines 152-154: a point for every preset the extracted value equals.
preset_bonus(extracted_dict, value_presets) ==
    Cardinality({i \in 1..Len(value_presets) :
                    /\ value_presets[i][1] \in DictKeys(extracted_dict)
                    /\ DictGet(extracted_dict, value_presets[i][1]) = value_presets[i][2]})

\* Line 155: extracted_dict.setdefault(k, v) for every preset, in order.
RECURSIVE with_presets(_, _)
with_presets(extracted_dict, value_presets) ==
    IF value_presets = <<>> THEN extracted_dict
    ELSE with_presets(IF value_presets[1][1] \in DictKeys(extracted_dict)
                      THEN extracted_dict
                      ELSE Append(extracted_dict, value_presets[1]),
                      Tail(value_presets))

\* Lines 157-160: a point lost for every ordered pair of fields where the
\* value of the second is not empty and occurs in the value of the first.
overlap_penalty(extracted_dict) ==
    Cardinality({p \in (1..Len(extracted_dict)) \X (1..Len(extracted_dict)) :
                    /\ extracted_dict[p[1]][1] # extracted_dict[p[2]][1]
                    /\ extracted_dict[p[2]][2] # <<>>
                    /\ Contains(extracted_dict[p[1]][2], extracted_dict[p[2]][2])})

\* Lines 164 and 172: the required fields that are no key of the dict.
missing_required_fields_of(required_fields, extracted_dict) ==
    {required_fields[i] : i \in 1..Len(required_fields)} \ DictKeys(extracted_dict)

\* Lines 137-165 for one group: what is extracted from it and its score.
score_group(results, required_fields, value_filters, value_presets) ==
    LET extracted_dict ==
            best_values_dict(ExtractedData(<<>>, filter_results(results, value_filters)))
        preset_dict == with_presets(extracted_dict, value_presets)
    IN  [extracted_dict |-> preset_dict,
         stage0 |-> extracted_dict,
         score |-> Len(extracted_dict)
                   + preset_bonus(extracted_dict, value_presets)
                   - overlap_penalty(preset_dict)
                   - Cardinality(missing_required_fields_of(required_fields, preset_dict))]

\* Lines 186-194: the match filed under field in a group other than the
\* winning one whose span is nearest to the centre, the first of the nearest.
extra_candidates(groups, max_score_group_idx, field) ==
    LET others == SelectSeq(groups, LAMBDA g : g[1] # max_score_group_idx)
        upto[i \in 0..Len(others)] ==
            IF i = 0 THEN <<>>
            ELSE upto[i - 1] \o SelectSeq(others[i][2], LAMBDA r : r[1] = field)
    IN  [i \in 1..Len(upto[Len(others)]) |-> upto[Len(others)][i][2]]

better_extra_candidate(candidates, centre) ==
    LET nearest == CHOOSE i \in 1..Len(candidates) :
            /\ \A j \in 1..Len(candidates) :
                   ScaledDistance(candidates[i].span, centre)
                       <= ScaledDistance(candidates[j].span, centre)
            /\ \A j \in 1..(i - 1) :
                   ScaledDistance(candidates[i].span, centre)
                       < ScaledDistance(candidates[j].span, centre)
    IN  candidates[nearest]

\* Lines 181-196 for the missing fields taken in a given order.
RECURSIVE secondary_fill(_, _, _, _, _)
secondary_fill(max_score_group, fields, groups, max_score_group_idx, centre) ==
    IF fields = <<>> THEN max_score_group
    ELSE LET field == IF fields[1] = "^#" THEN "title" ELSE fields[1]
             candidates == extra_candidates(groups, max_score_group_idx, field)
         IN  secondary_fill(
                 IF candidates = <<>> THEN max_score_group
                 ELSE DictSet(max_score_group, field,
                              select_group(better_extra_candidate(candidates, centre))[1]),
                 Tail(fields), groups, max_score_group_idx, centre)

\* The cleaned value taken whether it occurs in v or not.
cleaned_against_unchecked(v, j, w) ==
    LET vv == SubOut(v, w)
        vvv == SubOut(vv, FieldText(j))
        vvvv == StripChars(vvv, {"*", "|", " ", ":"})
    IN  IF v = vv \/ vv = vvv THEN v
        ELSE IF vvvv # vvv THEN vvvv ELSE v

\* Lines 201-209 for the value v of field k against the field j: the value
\* that replaces v, or v when nothing does.
cleaned_against(v, j, w) ==
    LET vv == SubOut(v, w)
        vvv == SubOut(vv, FieldText(j))
        vvvv == StripChars(vvv, {"*", "|", " ", ":"})
    IN  IF v = vv \/ vv = vvv THEN v
        ELSE IF vvvv # vvv /\ Contains(v, vvvv) THEN vvvv ELSE v

\* Lines 199-209: the fields j of the dict as it is, in order, for the item
\* (k, v) of the list taken before the pass.
RECURSIVE cleanup_inner(_, _, _, _)
cleanup_inner(max_score_group, k, v, j_index) ==
    IF j_index > Len(max_score_group) THEN max_score_group
    ELSE LET j == max_score_group[j_index][1]
             w == max_score_group[j_index][2]
             replaced == IF k # j /\ w # <<>> /\ Contains(v, w)
                              /\ cleaned_against(v, j, w) # v
                         THEN DictSet(max_score_group, k, cleaned_against(v, j, w))
                         ELSE max_score_group
         IN  cleanup_inner(replaced, k, v, j_index + 1)

\* Lines 198-209.
RECURSIVE cleanup_pass(_, _)
cleanup_pass(max_score_group, items) ==
    IF items = <<>> THEN max_score_group
    ELSE cleanup_pass(cleanup_inner(max_score_group, items[1][1], items[1][2], 1),
                      Tail(items))

(***************************************************************************)
(* Inputs of the cluster engine: the keywords code and name, their matches *)
(* at spans of two regions of the markdown far from each other, one deny   *)
(* pattern and presets.  In the texts no character is special in a regular *)
(* expression once the text is cleaned.                                    *)
(***************************************************************************)
MaxKeywordMatches == 2  \* matches of one keyword

Chars(t) ==
    CASE t = " abc" -> <<" ", "a", "b", "c">>
      [] t = "abc" -> <<"a", "b", "c">>
      [] t = "abc name: x" -> <<"a", "b", "c", " ", "n", "a", "m", "e", ":", " ", "x">>
      [] t = "bad" -> <<"b", "a", "d">>
      [] t = "x" -> <<"x">>
      [] t = "**x**" -> <<"*", "*", "x", "*", "*">>
      [] t = ": " -> <<":", " ">>
      [] t = "| | " -> <<"|", " ", "|", " ">>
      [] t = " " -> <<" ">>
      [] t = "ax name b:" -> <<"a", "x", " ", "n", "a", "m", "e", " ", "b", ":">>

MatchSpans == {<<0, 9>>, <<10, 17>>, <<60, 69>>, <<70, 77>>}

MatchBodies(keyword) ==
    IF keyword = "code"
    THEN {[first |-> Chars(": "), text |-> Chars(" abc")],
          [first |-> Chars(": "), text |-> Chars("abc name: x")],
          [first |-> Chars(": "), text |-> Chars("bad")]}
    ELSE IF keyword = "^#"
    THEN {[first |-> Chars(" "), text |-> Chars("abc")],
          [first |-> Chars(" "), text |-> Chars("bad")],
          [first |-> Chars(" "), text |-> Chars("abc name: x")],
          [first |-> Chars(" "), text |-> Chars("ax name b:")]}
    ELSE {[first |-> Chars(": "), text |-> Chars("x")],
          [first |-> Chars(": "), text |-> Chars("**x**")],
          [first |-> Chars("| | "), text |-> Chars("x")]}

\* re.finditer: the matches of a keyword, at most max of them, at spans of
\* the set given, in the order of their spans.
MatchLists(keyword, spans, max) ==
    LET of(span, body) == [keyword |-> keyword, first |-> body.first,
                           text |-> body.text, span |-> span]
        lists == SeqsUpTo({of(sp, b) : sp \in spans, b \in MatchBodies(keyword)}, max)
    IN  {l \in lists : \A i \in 1..(Len(l) - 1) : l[i].span[1] < l[i + 1].span[1]}

\* Lines 42-47: the matches of the keywords, keyword by keyword, no span twice.
AllMatches(keywords, max) ==
    LET upto[k \in 0..Len(keywords)] ==
            IF k = 0 THEN {<<>>}
            ELSE {done \o more : done \in upto[k - 1],
                                 more \in MatchLists(keywords[k], MatchSpans, max)}
    IN  {l \in upto[Len(keywords)] :
            \A i, j \in 1..Len(l) : i # j => l[i].span # l[j].span}

ClusterKeywords == <<"code", "name">>
ValueFilterChoices == {<<>>, <<<<"code", <<Chars("bad")>>>>>>}
ValuePresetChoices ==
    {<<>>, <<<<"code", Chars("abc")>>>>, <<<<"name", Chars("x")>>>>,
     <<<<"code", Chars("x")>>, <<"name", Chars("x")>>>>}

ClusterArgs(matches, keywords, required_fields, value_filters, value_presets) ==
    [matches |-> matches, keywords |-> keywords, required_fields |-> required_fields,
     value_filters |-> value_filters, value_presets |-> value_presets]

(***************************************************************************)
(* SpecCluster: one call of extract_by_keywords, constraints being None:   *)
(* the clustering, a step per group scored, the secondary fill and the     *)
(* final pass.                                                             *)
(***************************************************************************)
InitCluster ==
    /\ LocateIdle /\ LoaderIdle /\ TableIdle /\ SingletonIdle /\ CombinedIdle /\ ShardIdle
    /\ \E matches \in AllMatches(ClusterKeywords, MaxKeywordMatches) :
       \E value_filters \in ValueFilterChoices :
       \E value_presets \in ValuePresetChoices :
           cl_args = ClusterArgs(matches, ClusterKeywords, <<>>, value_filters, value_presets)
    /\ cl_pc = "start"
    /\ cl_labels = <<>>
    /\ cl_groups = <<>>
    /\ cl_scored = <<>>
    /\ cl_max = <<>>
    /\ cl_filled = <<>>
    /\ cl_result = <<>>

\* Lines 126-134: apply_kmeans_clustering, with a fit when there is a match;
\* the required fields get the field of every keyword; nothing is the best yet.
Clustering ==
    /\ cl_pc = "start"
    /\ LET n_clusters == max_groups_of(cl_args.matches, cl_args.keywords)
           required_fields == IF cl_args.keywords # <<>>
                              THEN all_required_fields(cl_args.required_fields, cl_args.keywords)
                              ELSE cl_args.required_fields
       IN  /\ IF n_clusters > 0
              THEN cl_labels' \in Fits(cl_args.matches, n_clusters)
              ELSE cl_labels' = <<>>
           /\ cl_groups' = apply_kmeans_clustering(cl_args.matches, cl_labels')
           /\ cl_args' = [cl_args EXCEPT !.required_fields = required_fields]
           /\ cl_max' = [max_score |-> 0 - Len(required_fields),
                         max_score_group |-> <<>>,
                         max_score_group_idx |-> -1]
    /\ cl_pc' = "score"
    /\ UNCHANGED <<cl_scored, cl_filled, cl_result, outside_cluster>>

\* Lines 136-170 for the next group: it is scored, and it becomes the best
\* when its score is higher than the best so far.
ScoreGroup ==
    /\ cl_pc = "score"
    /\ Len(cl_scored) < Len(cl_groups)
    /\ LET group == cl_groups[Len(cl_scored) + 1]
       IN  \E scored \in {score_group(group[2], cl_args.required_fields,
                                       cl_args.value_filters, cl_args.value_presets)} :
               /\ cl_scored' = Append(cl_scored,
                                      [idx |-> group[1], results |-> group[2],
                                       stage0 |-> scored.stage0,
                                       extracted_dict |-> scored.extracted_dict,
                                       score |-> scored.score])
               /\ cl_max' = IF scored.score > cl_max.max_score
                            THEN [max_score |-> scored.score,
                                  max_score_group |-> scored.extracted_dict,
                                  max_score_group_idx |-> group[1]]
                            ELSE cl_max
    /\ UNCHANGED <<cl_args, cl_pc, cl_labels, cl_groups, cl_filled, cl_result,
                   outside_cluster>>

\* The orders a set may be iterated in.
Orders(S) == {o \in [1..Cardinality(S) -> S] : \A i, j \in 1..Cardinality(S) : i # j => o[i] # o[j]}

\* cluster_centers_[max_score_group_idx], the index -1 being that of the last centre.
winner_centre(matches, labels, n_clusters, max_score_group_idx) ==
    Centre(matches, labels,
           IF max_score_group_idx = -1 THEN n_clusters - 1 ELSE max_score_group_idx)

\* Lines 172-196: with a best group, required fields it misses and a fit,
\* the missing fields are looked for in the other groups, in the order the
\* set of the missing fields is iterated in.
SecondaryFill ==
    /\ cl_pc = "score"
    /\ Len(cl_scored) = Len(cl_groups)
    /\ LET missing == missing_required_fields_of(cl_args.required_fields, cl_max.max_score_group)
           n_clusters == max_groups_of(cl_args.matches, cl_args.keywords)
       IN  IF cl_max.max_score_group # <<>> /\ missing # {} /\ n_clusters > 0
           THEN \E order \in Orders(missing) :
                    cl_filled' = secondary_fill(cl_max.max_score_group, order, cl_groups,
                                                cl_max.max_score_group_idx,
                                                winner_centre(cl_args.matches, cl_labels, n_clusters,
                                                              cl_max.max_score_group_idx))
           ELSE cl_filled' = cl_max.max_score_group
    /\ cl_pc' = "cleanup"
    /\ UNCHANGED <<cl_args, cl_labels, cl_groups, cl_scored, cl_max, cl_result,
                   outside_cluster>>

\* Lines 198-211: the final pass over the items, and the return.
Cleanup ==
    /\ cl_pc = "cleanup"
    /\ cl_result' = cleanup_pass(cl_filled, cl_filled)
    /\ cl_pc' = "returned"
    /\ UNCHANGED <<cl_args, cl_labels, cl_groups, cl_scored, cl_max, cl_filled,
                   outside_cluster>>

NextCluster == Clustering \/ ScoreGroup \/ SecondaryFill \/ Cleanup

SpecCluster == InitCluster /\ [][NextCluster]_vars

(***************************************************************************)
(* SpecTitles: the same call with the keywords ^# and name, the matches of *)
(* ^# being filed under title, and with required_fields either empty or    *)
(* naming the keyword ^# itself, no filter and no preset.                  *)
(***************************************************************************)
TitleKeywords == <<"^#", "name">>
TitleRequiredChoices == {<<>>, <<"^#">>}

InitTitles ==
    /\ LocateIdle /\ LoaderIdle /\ TableIdle /\ SingletonIdle /\ CombinedIdle /\ ShardIdle
    /\ \E matches \in AllMatches(TitleKeywords, MaxKeywordMatches) :
       \E required_fields \in TitleRequiredChoices :
           cl_args = ClusterArgs(matches, TitleKeywords, required_fields, <<>>, <<>>)
    /\ cl_pc = "start"
    /\ cl_labels = <<>>
    /\ cl_groups = <<>>
    /\ cl_scored = <<>>
    /\ cl_max = <<>>
    /\ cl_filled = <<>>
    /\ cl_result = <<>>

SpecTitles == InitTitles /\ [][NextCluster]_vars

(***************************************************************************)
(* The combined extractor (emodels/extract/combined.py): the table engine  *)
(* with max_tables = 2, the cluster engine for the columns no table result *)
(* has, and the merge of their results.  A value of a result is a text: a  *)
(* cell of a table result is taken as its sequence of characters.          *)
(***************************************************************************)
CellText(cell) ==
    CASE cell = "a" -> <<"a">>
      [] cell = "b" -> <<"b">>
      [] cell = "" -> <<>>

TableResult(result) ==
    [i \in 1..Len(result.data) |-> <<result.data[i][1], CellText(result.data[i][2])>>]
TableResults(all_results) == [i \in 1..Len(all_results) |-> TableResult(all_results[i])]

\* Lines 20-25: the keys of the results of the table engine.
seen_columns_of(results) == UNION {DictKeys(results[i]) : i \in 1..Len(results)}

\* Line 26: the columns no result has, in the order of columns.
required_fields_of(columns, results) ==
    SelectSeq(columns, LAMBDA c : c \notin seen_columns_of(results))

\* The cluster engine asked whatever the tables gave.
needs_cluster_always(required_fields) == TRUE

\* Line 27: if required_fields
needs_cluster(required_fields) == required_fields # <<>>

\* final_result keeping its own value for a key of result.
result_update_kept(final_result, result) ==
    DictUpdate(final_result, SelectSeq(result, LAMBDA p : p[1] \notin DictKeys(final_result)))

\* Line 36: final_result.update(result)
result_update(final_result, result) == DictUpdate(final_result, result)

\* Lines 35-36: the results before the last one update it, from the latest
\* to the earliest.
RECURSIVE merge_results(_, _)
merge_results(final_result, earlier) ==
    IF earlier = <<>> THEN final_result
    ELSE merge_results(result_update(final_result, earlier[Len(earlier)]),
                       SubSeq(earlier, 1, Len(earlier) - 1))

\* Lines 33-38.
combine(results_to_combine) ==
    IF results_to_combine # <<>>
    THEN merge_results(results_to_combine[Len(results_to_combine)],
                       SubSeq(results_to_combine, 1, Len(results_to_combine) - 1))
    ELSE <<>>

(***************************************************************************)
(* Inputs of the combined extractor: the columns code and name, a response *)
(* of tables that open with the header row code | name, and the matches    *)
(* the two columns have in its markdown.                                   *)
(***************************************************************************)
MaxCombinedRows == 1     \* rows below the header row of a table
MaxCombinedTables == 2   \* tables of the response
MaxCombinedMatches == 1  \* matches of one column in the markdown

CombinedColumns == <<"code", "name">>
CombinedHeader == MkRow(CombinedColumns, <<>>)
CombinedRows == {MkRow(<<"a", "b">>, <<>>), MkRow(<<"a", "">>, <<>>), MkRow(<<"b", "a">>, <<>>)}
CombinedTables(max_rows) == {<<CombinedHeader>> \o rows : rows \in SeqsUpTo(CombinedRows, max_rows)}
CombinedSpans == {<<0, 9>>, <<60, 69>>}

CombinedMatches(columns, max) ==
    LET upto[k \in 0..Len(columns)] ==
            IF k = 0 THEN {<<>>}
            ELSE {done \o more : done \in upto[k - 1],
                                 more \in MatchLists(columns[k], CombinedSpans, max)}
    IN  {l \in upto[Len(columns)] :
            \A i, j \in 1..Len(l) : i # j => l[i].span # l[j].span}

CombinedArgs(matches, value_filters, value_presets) ==
    [matches |-> matches, value_filters |-> value_filters, value_presets |-> value_presets]

(***************************************************************************)
(* SpecCombined: one call of parse_combined_from_response with the default *)
(* validate_result and dedupe_keywords and no constraints: the table       *)
(* engine runs, then the cluster engine when a column is missing, then the *)
(* results are merged.                                                     *)
(***************************************************************************)
InitCombined ==
    /\ LocateIdle /\ LoaderIdle /\ SingletonIdle /\ ClusterIdle /\ ShardIdle
    /\ tb_tables \in SeqsUpTo(CombinedTables(MaxCombinedRows), MaxCombinedTables)
    /\ tb_dedupe = <<>>
    /\ tb_max_tables = 2
    /\ tb_columns = CombinedColumns
    /\ tb_constraints = None
    /\ tb_pc = "start"
    /\ tb_ranked = <<>>
    /\ tb_seen = {}
    /\ tb_all_results = <<>>
    /\ tb_table_count = 0
    /\ tb_visited = <<>>
    /\ \E matches \in CombinedMatches(CombinedColumns, MaxCombinedMatches) :
       \E value_filters \in ValueFilterChoices :
       \E value_presets \in ValuePresetChoices :
           cb_args = CombinedArgs(matches, value_filters, value_presets)
    /\ cb_pc = "tables"
    /\ cb_to_combine = <<>>
    /\ cb_required = <<>>
    /\ cb_result = <<>>

\* Lines 21-30 and, with no column missing, 33-38: the table engine has
\* returned; its results are kept and either extract_by_keywords is called
\* with the columns as keywords or the results are merged and returned.
AfterTables ==
    /\ cb_pc = "tables"
    /\ tb_pc = "returned"
    /\ LET results == TableResults(tb_all_results)
           required_fields == required_fields_of(tb_columns, results)
       IN  /\ cb_to_combine' = results
           /\ cb_required' = required_fields
           /\ IF needs_cluster(required_fields)
              THEN /\ cl_args' = ClusterArgs(cb_args.matches, tb_columns, required_fields,
                                             cb_args.value_filters, cb_args.value_presets)
                   /\ cl_pc' = "start"
                   /\ cb_pc' = "cluster"
                   /\ cb_result' = cb_result
              ELSE /\ cb_result' = combine(results)
                   /\ cb_pc' = "returned"
                   /\ UNCHANGED <<cl_args, cl_pc>>
    /\ UNCHANGED <<cb_args, cl_labels, cl_groups, cl_scored, cl_max, cl_filled, cl_result,
                   table_vars, outside_combined>>

\* Lines 31-38: extract_by_keywords has returned; its result joins the
\* results when it is not empty, and the results are merged and returned.
AfterCluster ==
    /\ cb_pc = "cluster"
    /\ cl_pc = "returned"
    /\ LET results_to_combine == IF cl_result # <<>>
                                 THEN Append(cb_to_combine, cl_result)
                                 ELSE cb_to_combine
       IN  /\ cb_to_combine' = results_to_combine
           /\ cb_result' = combine(results_to_combine)
    /\ cb_pc' = "returned"
    /\ UNCHANGED <<cb_args, cb_required, cluster_vars, table_vars, outside_combined>>

NextCombined ==
    \/ FindTables \/ ParseRankedHeader \/ AfterTables
    \/ Clustering \/ ScoreGroup \/ SecondaryFill \/ Cleanup \/ AfterCluster

SpecCombined == InitCombined /\ [][NextCombined]_vars

(***************************************************************************)
(* SpecSingleton: calls C() on the classes of the hierarchy, in any order. *)
(***************************************************************************)
InitSingleton ==
    /\ LocateIdle /\ LoaderIdle /\ TableIdle /\ SingletonIdle /\ ClusterIdle
    /\ CombinedIdle /\ ShardIdle

\* Lines 166-168 on a concrete class: the object cls._self names is returned,
\* and when it names none a new object of cls is created and set as the
\* _self attribute of cls itself.
InstantiateConcrete ==
    \E cls \in ConcreteClasses :
        LET found == ClassAttr(sg_own, cls)
            created == Len(sg_objects) + 1
            returned == IF found = NoObject THEN created ELSE found
        IN  /\ sg_objects' = IF found = NoObject THEN Append(sg_objects, cls) ELSE sg_objects
            /\ sg_own' = IF found = NoObject THEN [sg_own EXCEPT ![cls] = created] ELSE sg_own
            /\ sg_returned' = [sg_returned EXCEPT ![cls] = @ \cup {returned}]
            /\ sg_last' = <<cls, "returned", returned>>
            /\ UNCHANGED outside_singleton

\* On an abstract class: object.__new__ raises TypeError when cls._self names
\* no object, before anything is assigned; else the object named is returned.
InstantiateAbstract ==
    \E cls \in AbstractClasses :
        LET found == ClassAttr(sg_own, cls)
        IN  /\ sg_last' = <<cls, IF found = NoObject THEN "TypeError" ELSE "returned", found>>
            /\ sg_returned' = IF found = NoObject THEN sg_returned
                              ELSE [sg_returned EXCEPT ![cls] = @ \cup {found}]
            /\ UNCHANGED <<sg_own, sg_objects, outside_singleton>>

NextSingleton == InstantiateConcrete \/ InstantiateAbstract

SpecSingleton == InitSingleton /\ [][NextSingleton]_vars

(***************************************************************************)
(* The sharded loader (emodels/scrapyutils/loader.py): loader classes, the *)
(* savefile class attribute set by __new__ and the numbered files of the   *)
(* folders of EMODELS_ITEMS_DIR.  A record is the name of the loader class *)
(* that appended it; "earlier" is a record of an earlier run.              *)
(***************************************************************************)
NoSavefile == <<>>

LoaderClasses == {"ExtractItemLoader", "ParentLoader", "ChildLoader", "OtherLoader"}

LoaderBaseOf(c) ==
    CASE c = "ParentLoader" -> "ExtractItemLoader"
      [] c = "ChildLoader" -> "ParentLoader"
      [] c = "OtherLoader" -> "ExtractItemLoader"

\* obj.default_item_class.__name__
default_item_class(c) ==
    CASE c = "ExtractItemLoader" -> "Item"
      [] c = "ParentLoader" -> "ParentItem"
      [] c = "ChildLoader" -> "ChildItem"
      [] c = "OtherLoader" -> "OtherItem"

ItemFolders == {default_item_class(c) : c \in LoaderClasses}

RECURSIVE LoaderMro(_)
LoaderMro(c) == IF c = "ExtractItemLoader" THEN <<c>> ELSE <<c>> \o LoaderMro(LoaderBaseOf(c))

\* hasattr(cls, "savefile"): the class or one of its bases has the attribute.
hasattr_savefile(savefile, c) ==
    \E i \in 1..Len(LoaderMro(c)) : savefile[LoaderMro(c)[i]] # NoSavefile

\* self.savefile: the attribute of the first class of the mro that has it.
savefile_of(savefile, c) ==
    LET mro == LoaderMro(c)
        first == CHOOSE i \in 1..Len(mro) :
                     /\ savefile[mro[i]] # NoSavefile
                     /\ \A j \in 1..(i - 1) : savefile[mro[j]] = NoSavefile
    IN  savefile[mro[first]]

\* DatasetFilename.append on the file findex of a folder, the file 0 being the
\* first of the sequence: the record goes to the end of the file, which is
\* created when it is not there.
shard_append(files, findex, record) ==
    IF findex < Len(files)
    THEN [files EXCEPT ![findex + 1] = file_append(files[findex + 1], record)]
    ELSE Append(files, file_append(<<>>, record))

RECURSIVE RecordCount(_)
RecordCount(files) == IF files = <<>> THEN 0 ELSE Len(files[1]) + RecordCount(Tail(files))

(***************************************************************************)
(* SpecShards: loader objects of the classes are created and their samples *)
(* saved, in any order, in folders that hold the files of earlier runs.    *)
(***************************************************************************)
MaxEarlierShards == 1    \* files an earlier run left in a folder
MaxSamples == 3          \* samples saved in the run

InitShards ==
    /\ LocateIdle /\ LoaderIdle /\ TableIdle /\ SingletonIdle /\ ClusterIdle /\ CombinedIdle
    /\ sh_savefile = [c \in LoaderClasses |-> NoSavefile]
    /\ \E earlier \in [ItemFolders -> 0..MaxEarlierShards] :
           sh_folders = [f \in ItemFolders |-> [i \in 1..earlier[f] |-> <<"earlier">>]]
    /\ sh_loaders = {}

\* ExtractItemLoader.__new__, lines 19-26: the first loader of a class that
\* has no savefile attribute gives the class one, in the folder of the
\* default_item_class, numbered by the files the folder holds.
NewShardLoader ==
    \E c \in LoaderClasses :
        /\ sh_savefile' =
               IF hasattr_savefile(sh_savefile, c) THEN sh_savefile
               ELSE [sh_savefile EXCEPT ![c] =
                        <<default_item_class(c), Len(sh_folders[default_item_class(c)])>>]
        /\ sh_loaders' = sh_loaders \cup {c}
        /\ UNCHANGED <<sh_folders, outside_shards>>

\* _save_extract_sample, lines 85-92, of a loader with extract_indexes and
\* EMODELS_SAVE_EXTRACT_ITEMS set: the sample is appended to self.savefile.
SaveShardSample ==
    \E c \in sh_loaders :
        /\ RecordCount(sh_folders["Item"]) + RecordCount(sh_folders["ParentItem"])
           + RecordCount(sh_folders["ChildItem"]) + RecordCount(sh_folders["OtherItem"])
               < MaxSamples + 4 * MaxEarlierShards
        /\ LET savefile == savefile_of(sh_savefile, c)
           IN  sh_folders' = [sh_folders EXCEPT ![savefile[1]] =
                                 shard_append(sh_folders[savefile[1]], savefile[2], c)]
        /\ UNCHANGED <<sh_savefile, sh_loaders, outside_shards>>

NextShards == NewShardLoader \/ SaveShardSample

SpecShards == InitShards /\ [][NextShards]_vars

(***************************************************************************)
(* Claims about the locator (SpecLocate)                                   *)
(***************************************************************************)
\* The windows of the last call whose match text_re kept, in match order.
KeptWindows ==
    SelectSeq(tr_windows, LAMBDA w : text_re_accepts(TrimWindow(markdown, w)[1]))

\* The comments COMMENT_RE finds in s are its tail: nothing kept follows one.
SpansAtEnd(ms, n) ==
    \/ ms = <<>>
    \/ /\ ms[Len(ms)][2] = n
       /\ \A i \in 1..(Len(ms) - 1) : ms[i][2] = ms[i + 1][1]

CommentsAtEnd(s) == SpansAtEnd(COMMENT_RE_finditer(s), Len(s))

TupleOfWindow(r, tw) ==
    /\ r[1] = COMMENT_RE_sub(tw[1])
    /\ r[2] = tw[2]
    /\ r[3] - r[2] = Len(r[1])
    /\ CommentsAtEnd(tw[1]) => Slice(markdown, r[2], r[3]) = r[1]

C7_NoEmptyText ==
    tr_result # None => \A i \in 1..Len(tr_result) : tr_result[i][1] # <<>>

(***************************************************************************)
(* Claims about finalize (SpecFinalize)                                    *)
(***************************************************************************)
\* Offset i of md lies strictly inside a marker comment.
CutsComment(md, i) ==
    \E j \in 1..Len(COMMENT_RE_finditer(md)) :
        COMMENT_RE_finditer(md)[j][1] < i /\ i < COMMENT_RE_finditer(md)[j][2]

\* The marker comments lie before, inside, next to or after field a: its
\* text is a stretch of the document that cuts no comment, less the
\* comments inside the stretch.
WholeCommentsOnly(a) ==
    /\ ~CutsComment(markdown, extract_indexes[a][1])
    /\ \E k \in extract_indexes[a][1]..Len(markdown) :
          /\ ~CutsComment(markdown, k)
          /\ COMMENT_RE_sub(Slice(markdown, extract_indexes[a][1], k)) = field_text[a]

\* C2: for every field recorded with span (s, e) and text t, the sample
\* written holds offsets (s', e') with persisted_markdown[s':e'] = t,
\* wherever the marker comments lie.
C2_SampleRoundTrip ==
    last_sample # NoSample =>
        \A a \in Keys(last_sample[1].indexes) :
            WholeCommentsOnly(a) =>
            PySlice(last_sample[1].markdown,
                    last_sample[1].indexes[a][1], last_sample[1].indexes[a][2])
                = field_text[a]

\* C6: the markdown persisted in a sample contains no marker comment.
C6_NoCommentPersisted ==
    last_sample # NoSample => COMMENT_RE_findall(last_sample[1].markdown) = <<>>

\* The pairs <<first, second>> of adjacent spans of ms that start at offset e.
AdjacentPairsAt(ms, e) ==
    {<<ms[i], ms[i + 1]>> : i \in {j \in 1..(Len(ms) - 1) :
                                      ms[j][1] = e /\ ms[j][2] = ms[j + 1][1]}}

\* Two adjacent marker comments of md start at offset e.
CommentPairsAt(md, e) == AdjacentPairsAt(COMMENT_RE_finditer(md), e)

\* Combined length of the marker comments of md that start at or before s.
RECURSIVE SpansLength(_)
SpansLength(ms) ==
    IF ms = <<>> THEN 0 ELSE (Head(ms)[2] - Head(ms)[1]) + SpansLength(Tail(ms))

CommentsLengthUpTo(md, s) ==
    SpansLength(SelectSeq(COMMENT_RE_finditer(md), LAMBDA m : m[1] <= s))

\* How far finalize moved the end offset of field a to the left.
EndShift(a) == extract_indexes[a][2] - last_sample[1].indexes[a][2]

\* C3 as stated: when two adjacent marker comments immediately follow the
\* end offset of a recorded (non-empty) field, finalize shifts that end
\* offset left by exactly the combined length of the two comments.
C3_ShiftByBothComments ==
    last_sample # NoSample =>
        \A a \in Keys(last_sample[1].indexes) :
            \A pair \in CommentPairsAt(markdown, extract_indexes[a][2]) :
                extract_indexes[a][1] < extract_indexes[a][2] =>
                    EndShift(a) = SpansLength(<<pair[1], pair[2]>>)

\* C3 amended: in that document finalize shifts the end offset left by
\* exactly the combined length of the marker comments that start at or
\* before the field's start offset; the two comments that follow the end
\* offset of a non-empty field are no part of that shift.
C3_ShiftByCommentsUpToStart ==
    last_sample # NoSample =>
        \A a \in Keys(last_sample[1].indexes) :
            CommentPairsAt(markdown, extract_indexes[a][2]) # {} =>
                EndShift(a) = CommentsLengthUpTo(markdown, extract_indexes[a][1])

\* A sample written for a non-empty field whose end offset is followed by
\* two adjacent marker comments.
C3_Witness ==
    /\ last_sample # NoSample
    /\ \E a \in Keys(last_sample[1].indexes) :
          /\ CommentPairsAt(markdown, extract_indexes[a][2]) # {}
          /\ extract_indexes[a][1] < extract_indexes[a][2]

(***************************************************************************)
(* Claims about the loader session (SpecLoader)                            *)
(***************************************************************************)
\* Every field present keeps its span in the step.
PresentSpansKept ==
    \A a \in Keys(extract_indexes) :
        /\ a \in Keys(extract_indexes')
        /\ extract_indexes'[a] = extract_indexes[a]

\* No value is added in the step for a field that is present.
PresentValuesKept ==
    \A a \in Keys(extract_indexes) : ValuesOf(values', a) = ValuesOf(values, a)

ExtractableSpans ==
    {<<text_re(markdown, <<w>>)[1][2], text_re(markdown, <<w>>)[1][3]>> :
        w \in {x \in Windows(markdown) : text_re(markdown, <<x>>) # <<>>}}

C8_AppendOnly ==
    [][/\ Len(partition') >= Len(partition)
       /\ SubSeq(partition', 1, Len(partition)) = partition
       /\ Len(partition') <= Len(partition) + 1
       /\ partition' # partition =>
             /\ loaded'
             /\ Keys(extract_indexes) # {}
             /\ partition'[Len(partition')] = BuildSample(markdown, extract_indexes)
       /\ (save_enabled /\ ~loaded /\ loaded') =>
             Len(partition') = Len(partition) + (IF Keys(extract_indexes) = {} THEN 0 ELSE 1)
      ]_vars

\* Two sessions have written their records, the second after a session
\* that recorded other fields.
C8_Witness ==
    /\ Len(partition) = 2
    /\ Keys(partition[1].indexes) # Keys(partition[2].indexes)
    /\ loaded

(***************************************************************************)
(* Claims about the table engine (SpecTable)                               *)
(***************************************************************************)
\* The dicts of the output list, in order.
Output == [i \in 1..Len(tb_all_results) |-> tb_all_results[i].data]

\* The result has a non-empty value for every dedupe keyword.
HasAllDedupeValues(result) ==
    \A k \in 1..Len(tb_dedupe) :
        tb_dedupe[k] \in DictKeys(result) /\ DictGet(result, tb_dedupe[k]) # ""

\* Two results hold identical non-empty values for all the dedupe keywords.
DedupeDuplicates(r1, r2) ==
    /\ tb_dedupe # <<>>
    /\ HasAllDedupeValues(r1)
    /\ HasAllDedupeValues(r2)
    /\ \A k \in 1..Len(tb_dedupe) : DictGet(r1, tb_dedupe[k]) = DictGet(r2, tb_dedupe[k])

\* C9: of two parsed rows that have identical non-empty values for all the
\* dedupe_keywords fields, whatever the tables, the method and the order of
\* the columns, at most one is in the list parse_tables_from_response returns:
\* no two entries of the output are such a pair.
C9_AtMostOneOfDuplicates ==
    \A i \in 1..Len(Output) : \A j \in 1..Len(Output) :
        i < j => ~DedupeDuplicates(Output[i], Output[j])

\* The tables the rows of the output were parsed from.
OutputTables == {tb_all_results[i].from_table : i \in 1..Len(tb_all_results)}

\* The passes of the loop that contributed at least one result.
ContributingPasses == SelectSeq(tb_visited, LAMBDA v : v.results # <<>>)

RECURSIVE ResultsOf(_)
ResultsOf(passes) ==
    IF passes = <<>> THEN <<>> ELSE passes[1].results \o ResultsOf(Tail(passes))

\* C10 as stated: the list parse_tables_from_response returns holds rows of
\* at most max_tables distinct tables.
C10_AtMostMaxTablesTables ==
    tb_pc = "returned" => Cardinality(OutputTables) <= tb_max_tables

\* C10 amended: for max_tables >= 1 the count is of loop passes, one per
\* ranked header row, that contributed at least one surviving result; a pass
\* with zero surviving rows adds nothing to the output and is not counted; the
\* loop goes on while the count is below max_tables and stops at the pass that
\* makes it equal, so the output is the results of at most max_tables
\* contributing passes.
C10_AtMostMaxTablesPasses ==
    /\ tb_table_count = Len(ContributingPasses)
    /\ tb_all_results = ResultsOf(tb_visited)
    /\ tb_table_count <= tb_max_tables
    /\ tb_pc = "loop" => tb_table_count < tb_max_tables
    /\ (tb_pc = "returned" /\ tb_ranked # <<>>) => tb_table_count = tb_max_tables
    /\ tb_table_count = tb_max_tables => tb_visited[Len(tb_visited)].results # <<>>

\* A call that returned at max_tables with a ranked header left unvisited,
\* after a first pass that yielded nothing and a pass whose rows come from
\* more tables than max_tables.
C10_Witness ==
    /\ tb_pc = "returned"
    /\ tb_ranked # <<>>
    /\ tb_table_count = tb_max_tables
    /\ Len(tb_visited) > 1
    /\ tb_visited[1].results = <<>>
    /\ Cardinality(OutputTables) > tb_max_tables

(***************************************************************************)
(* C11  After the backfill of a pass over one ranked header, the results   *)
(* the pass contributes all have the same keys; a key a row did not have   *)
(* when it was parsed, and that another row of the pass has, maps to "" in *)
(* that row; every other value is the parsed one; and no key is left whose *)
(* value is empty in every row of the pass.                                *)
(***************************************************************************)
BackfilledRow(parsed, result, others) ==
    /\ \A k \in DictKeys(result) :
           DictGet(result, k) = IF k \in DictKeys(parsed) THEN DictGet(parsed, k) ELSE ""
    /\ \A j \in 1..Len(others) : \A k \in DictKeys(others[j].data) \ DictKeys(parsed) :
           DictGet(others[j].data, k) # "" => k \in DictKeys(result)

AlignedPass(pass) ==
    /\ Len(pass.results) = Len(pass.parsed)
    /\ \A i, j \in 1..Len(pass.results) :
           DictKeys(pass.results[i].data) = DictKeys(pass.results[j].data)
    /\ \A i \in 1..Len(pass.results) :
           BackfilledRow(pass.parsed[i].data, pass.results[i].data, pass.parsed)
    /\ \A i \in 1..Len(pass.results) : \A k \in DictKeys(pass.results[i].data) :
           \E j \in 1..Len(pass.results) : DictGet(pass.results[j].data, k) # ""

C11_BackfillAligns == \A p \in 1..Len(tb_visited) : AlignedPass(tb_visited[p])

\* A pass that gave a row a key it lacked, and a pass that dropped a key.
C11_Witness ==
    /\ \E p \in 1..Len(tb_visited) : \E i \in 1..Len(tb_visited[p].results) :
           \E k \in DictKeys(tb_visited[p].results[i].data) :
               k \notin DictKeys(tb_visited[p].parsed[i].data)
    /\ \E p \in 1..Len(tb_visited) : \E i \in 1..Len(tb_visited[p].results) :
           \E k \in DictKeys(tb_visited[p].parsed[i].data) :
               k \notin DictKeys(tb_visited[p].results[i].data)

(***************************************************************************)
(* C12  For the only table, header symbol | isin | name and n rows below   *)
(* it, the call returns n results, the i-th having exactly the keys        *)
(* symbol, isin and name with the cell texts of the i-th row.              *)
(***************************************************************************)
DataRows == Tail(tb_tables[1])

RowResult(row) == <<<<"symbol", row.cells[1]>>, <<"isin", row.cells[2]>>,
                    <<"name", row.cells[3]>>>>

SameDict(d, e) ==
    /\ DictKeys(d) = DictKeys(e)
    /\ Len(d) = Len(e)
    /\ \A k \in DictKeys(d) : DictGet(d, k) = DictGet(e, k)

OneResultPerRow(rows) ==
    /\ Len(tb_all_results) = Len(rows)
    /\ \A i \in 1..Len(rows) : SameDict(tb_all_results[i].data, RowResult(rows[i]))

C12_OneResultPerDataRow == tb_pc = "returned" => OneResultPerRow(DataRows)

\* The same, the rows below the header that repeat it not being data rows.
C12_OneResultPerOtherRow ==
    tb_pc = "returned" => OneResultPerRow(SelectSeq(DataRows, LAMBDA r : r # ScenarioHeader))

C12_Witness ==
    /\ tb_pc = "returned"
    /\ Len(DataRows) = 2
    /\ ScenarioHeader \in {DataRows[i] : i \in 1..2}
    /\ Len(tb_all_results) = 1

(***************************************************************************)
(* C18  A pass over one ranked header keeps the results of parse_table_ii  *)
(* when they score strictly higher than those of parse_table, and those of *)
(* parse_table otherwise, equal scores included.                           *)
(***************************************************************************)
StrictResults(pass) == pass.by_method[1]
CompactResults(pass) == pass.by_method[2]

C18_HigherScoreElseStrict ==
    \A p \in 1..Len(tb_visited) :
        LET pass == tb_visited[p]
        IN  pass.parsed = IF score_results(CompactResults(pass)) > score_results(StrictResults(pass))
                          THEN CompactResults(pass)
                          ELSE StrictResults(pass)

\* The same, except that results scoring 0 are never kept.
C18_HigherScoreElseStrictIfScoring ==
    \A p \in 1..Len(tb_visited) :
        LET pass == tb_visited[p]
        IN  pass.parsed = IF score_results(CompactResults(pass)) > score_results(StrictResults(pass))
                          THEN CompactResults(pass)
                          ELSE IF score_results(StrictResults(pass)) > 0
                               THEN StrictResults(pass)
                               ELSE <<>>

\* A pass where both methods have results of one score and a pass where
\* parse_table_ii scores higher than the results parse_table has.
C18_Witness ==
    /\ \E p \in 1..Len(tb_visited) :
           /\ CompactResults(tb_visited[p]) # <<>>
           /\ score_results(CompactResults(tb_visited[p])) = score_results(StrictResults(tb_visited[p]))
           /\ tb_visited[p].parsed = StrictResults(tb_visited[p])
    /\ \E p \in 1..Len(tb_visited) :
           /\ score_results(CompactResults(tb_visited[p])) > score_results(StrictResults(tb_visited[p]))
           /\ tb_visited[p].parsed = CompactResults(tb_visited[p])

(***************************************************************************)
(* C19  The seen-set holds identity keys of accepted records only: every   *)
(* key in it is the narrow or the full key of a record that passed the     *)
(* validation, the duplicate test and the constraints in some pass.        *)
(***************************************************************************)
AcceptedRecords ==
    UNION {{tb_visited[p].by_method[m][i].data : i \in 1..Len(tb_visited[p].by_method[m])} :
           p \in 1..Len(tb_visited), m \in 1..2}

AcceptedKeys ==
    UNION {{uid_of(r, tb_dedupe), full_uid_of(r)} : r \in AcceptedRecords}

C19_OnlyAcceptedRemembered == tb_seen \subseteq AcceptedKeys

(***************************************************************************)
(* C20  find_tables returns every table whose header row matches at most   *)
(* 20 target columns, and no other, each once with its header row, ordered *)
(* by (distinct target columns among the lowered header cells, non-empty   *)
(* header cells) descending, and among tables of one rank the one later in *)
(* the document first.                                                     *)
(***************************************************************************)
MatchCount(headers) ==
    Cardinality({c \in 1..Len(tb_columns) :
                    \E h \in 1..Len(headers) : Lower(headers[h]) = tb_columns[c]})
NonEmptyCount(headers) == Cardinality({h \in 1..Len(headers) : headers[h] # ""})

RanksBefore(e1, e2) ==
    \/ MatchCount(e1[2]) > MatchCount(e2[2])
    \/ /\ MatchCount(e1[2]) = MatchCount(e2[2])
       /\ \/ NonEmptyCount(e1[2]) > NonEmptyCount(e2[2])
          \/ NonEmptyCount(e1[2]) = NonEmptyCount(e2[2]) /\ e1[1] > e2[1]

\* find_tables has returned and the loop has not begun.
JustRanked == tb_pc = "loop" /\ tb_visited = <<>>

C20_RankedLaterFirst ==
    JustRanked =>
        /\ \A t \in 1..Len(tb_tables) :
               LET headers == find_table_headers(tb_tables[t], tb_columns)[1]
               IN  IF MatchCount(headers) <= MAX_HEADER_COLUMNS
                   THEN Cardinality({i \in 1..Len(tb_ranked) : tb_ranked[i] = <<t, headers>>}) = 1
                   ELSE \A i \in 1..Len(tb_ranked) : tb_ranked[i][1] # t
        /\ Len(tb_ranked) <= Len(tb_tables)
        /\ \A i, j \in 1..Len(tb_ranked) : i < j => RanksBefore(tb_ranked[i], tb_ranked[j])

\* Three tables ranked, two of one rank and one of another.
C20_Witness ==
    /\ JustRanked
    /\ Len(tb_ranked) = 3
    /\ \E i, j \in 1..3 :
           /\ i < j
           /\ MatchCount(tb_ranked[i][2]) = MatchCount(tb_ranked[j][2])
           /\ NonEmptyCount(tb_ranked[i][2]) = NonEmptyCount(tb_ranked[j][2])
    /\ MatchCount(tb_ranked[1][2]) > MatchCount(tb_ranked[3][2])

(***************************************************************************)
(* C17  Whatever the order of the calls, all the calls C() of a concrete   *)
(* class C return one object, that object is an instance of C, and it is   *)
(* not the object the calls of another class return.                       *)
(***************************************************************************)
IsSubclass(c, d) == \E i \in 1..Len(Mro(c)) : Mro(c)[i] = d

C17_SingletonPerClass ==
    \A c \in ConcreteClasses :
        /\ Cardinality(sg_returned[c]) <= 1
        /\ \A o \in sg_returned[c] : IsSubclass(sg_objects[o], c)
        /\ \A d \in ConcreteClasses \ {c} : sg_returned[c] \cap sg_returned[d] = {}

(***************************************************************************)
(* C13  For every group scored and every preset (k, v) whose value v is    *)
(* the value the group extracted for k, the score of the group is at least *)
(* the score it has with that preset taken out of value_presets.           *)
(***************************************************************************)
MatchingPresets(scored) ==
    {i \in 1..Len(cl_args.value_presets) :
        /\ cl_args.value_presets[i][1] \in DictKeys(scored.stage0)
        /\ DictGet(scored.stage0, cl_args.value_presets[i][1]) = cl_args.value_presets[i][2]}

PresetsWithout(i) ==
    SubSeq(cl_args.value_presets, 1, i - 1)
        \o SubSeq(cl_args.value_presets, i + 1, Len(cl_args.value_presets))

ScoreWithout(scored, i) ==
    score_group(scored.results, cl_args.required_fields, cl_args.value_filters,
                PresetsWithout(i)).score

C13_MatchingPresetNeverLowersScore ==
    \A g \in 1..Len(cl_scored) : \A i \in MatchingPresets(cl_scored[g]) :
        cl_scored[g].score >= ScoreWithout(cl_scored[g], i)

\* A group scored with a preset that matches, which scores higher for it.
C13_Witness ==
    \E g \in 1..Len(cl_scored) : \E i \in MatchingPresets(cl_scored[g]) :
        cl_scored[g].score > ScoreWithout(cl_scored[g], i)

(***************************************************************************)
(* C16  No field of the result has, from the scoring of the groups or from *)
(* the secondary fill, the cleaned value of a match that a deny pattern of *)
(* value_filters for that field excludes: no deny pattern of a field is    *)
(* found in a value a match gave the field and the final pass left as it   *)
(* was.                                                                    *)
(***************************************************************************)
\* What the best group extracted from its matches, before the presets.
WinnerExtracted ==
    IF \E g \in 1..Len(cl_scored) : cl_scored[g].idx = cl_max.max_score_group_idx
                                      /\ cl_scored[g].extracted_dict = cl_max.max_score_group
    THEN LET g == CHOOSE h \in 1..Len(cl_scored) :
                      /\ cl_scored[h].idx = cl_max.max_score_group_idx
                      /\ cl_scored[h].extracted_dict = cl_max.max_score_group
         IN  cl_scored[g].stage0
    ELSE <<>>

\* The field has its value from a match: the best group extracted it, or the
\* secondary fill set it.
FromMatch(field) ==
    \/ field \in DictKeys(WinnerExtracted)
    \/ field \notin DictKeys(cl_max.max_score_group)
    \/ DictGet(cl_filled, field) # DictGet(cl_max.max_score_group, field)

Denied(field, value) ==
    LET patterns == DictGetOr(cl_args.value_filters, field, <<>>)
    IN  \E v \in 1..Len(patterns) : Contains(value, patterns[v])

C16_DeniedValueNeverReturned ==
    cl_pc = "returned" =>
        \A field \in DictKeys(cl_result) :
            (/\ field \in DictKeys(cl_filled)
             /\ DictGet(cl_result, field) = DictGet(cl_filled, field)
             /\ FromMatch(field))
            => ~Denied(field, DictGet(cl_result, field))

(***************************************************************************)
(* Claims about the combined extractor (SpecCombined)                      *)
(***************************************************************************)
ReturnedTableResults == TableResults(tb_all_results)

\* Some table result has the key with this value.
TableDerived(key, value) ==
    \E i \in 1..Len(ReturnedTableResults) :
        /\ key \in DictKeys(ReturnedTableResults[i])
        /\ DictGet(ReturnedTableResults[i], key) = value

ColumnsCovered ==
    \A c \in 1..Len(tb_columns) : tb_columns[c] \in seen_columns_of(ReturnedTableResults)

(***************************************************************************)
(* C14  Once the table engine has returned: when the keys of its results   *)
(* cover every column, extract_by_keywords is never called and every value *)
(* of the mapping returned is the value a table result has for the key;    *)
(* and extract_by_keywords is called only when some column is a key of no  *)
(* table result.                                                           *)
(***************************************************************************)
C14_ClusterOnlyForMissingColumns ==
    /\ (tb_pc = "returned" /\ ColumnsCovered) =>
           /\ cl_pc = "idle"
           /\ cb_pc = "returned" =>
                  \A i \in 1..Len(cb_result) : TableDerived(cb_result[i][1], cb_result[i][2])
    /\ cl_pc # "idle" =>
           /\ tb_pc = "returned"
           /\ \E c \in 1..Len(tb_columns) :
                  tb_columns[c] \notin seen_columns_of(ReturnedTableResults)

\* A call returned on tables that cover the columns, two results among
\* them, with matches of both columns in the markdown.
C14_Witness ==
    /\ cb_pc = "returned"
    /\ ColumnsCovered
    /\ Len(tb_all_results) >= 2
    /\ \A c \in 1..Len(tb_columns) :
           \E m \in 1..Len(cb_args.matches) : cb_args.matches[m].keyword = tb_columns[c]
    /\ cb_result # <<>>

(***************************************************************************)
(* C15  In the mapping returned, a key some table result has carries the   *)
(* value of a table result, the earliest that has the key; a key no table  *)
(* result has carries the value the cluster engine returned for it; and    *)
(* with no table result and no cluster result the mapping is empty.        *)
(***************************************************************************)
EarliestTableValue(key) ==
    LET i == CHOOSE j \in 1..Len(ReturnedTableResults) :
                 /\ key \in DictKeys(ReturnedTableResults[j])
                 /\ \A h \in 1..(j - 1) : key \notin DictKeys(ReturnedTableResults[h])
    IN  DictGet(ReturnedTableResults[i], key)

C15_TablesOverCluster ==
    cb_pc = "returned" =>
        /\ \A key \in seen_columns_of(ReturnedTableResults) :
               /\ key \in DictKeys(cb_result)
               /\ DictGet(cb_result, key) = EarliestTableValue(key)
        /\ \A key \in DictKeys(cb_result) \ seen_columns_of(ReturnedTableResults) :
               /\ cl_pc = "returned"
               /\ key \in DictKeys(cl_result)
               /\ DictGet(cb_result, key) = DictGet(cl_result, key)
        /\ (tb_all_results = <<>> /\ cl_result = <<>>) => cb_result = <<>>

\* A mapping returned with a key both engines have a value for, the two
\* values apart, and a key only the cluster engine has.
C15_Witness ==
    /\ cb_pc = "returned"
    /\ cl_pc = "returned"
    /\ \E key \in seen_columns_of(ReturnedTableResults) \cap DictKeys(cl_result) :
           DictGet(cl_result, key) # EarliestTableValue(key)
    /\ DictKeys(cb_result) \ seen_columns_of(ReturnedTableResults) # {}

(***************************************************************************)
(* Claims about the links of a row (SpecLinks)                             *)
(***************************************************************************)
\* urlparse(url).netloc of an absolute url.
HostOf(url) ==
    CASE url = "http://example.com/x" -> "example.com"
      [] url = "http://other.org/" -> "other.org"
      [] url = "http://other.org/?from=example.com" -> "other.org"

\* The rows of the table a result was parsed from that have its isin.
RowsOf(result) ==
    {r \in 1..Len(tb_tables[result.from_table]) :
        /\ "isin" \in DictKeys(result.data)
        /\ tb_tables[result.from_table][r].cells[1] = DictGet(result.data, "isin")}

StoredUnder(result, key, url) ==
    key \in DictKeys(result.data) /\ DictGet(result.data, key) = url

(***************************************************************************)
(* C21  In every result, every link of its row whose host is that of the   *)
(* response is the value of "url", every link to another host is the value *)
(* of "website", and a mailto link is the value of neither.                *)
(***************************************************************************)
C21_LinksByHost ==
    \A i \in 1..Len(tb_all_results) : \A r \in RowsOf(tb_all_results[i]) :
        LET hrefs == tb_tables[tb_all_results[i].from_table][r].hrefs
        IN  \A h \in 1..Len(hrefs) :
                IF IsMailto(hrefs[h])
                THEN /\ ~StoredUnder(tb_all_results[i], "url", hrefs[h])
                     /\ ~StoredUnder(tb_all_results[i], "website", hrefs[h])
                ELSE IF HostOf(urljoin(hrefs[h])) = ResponseNetloc
                     THEN StoredUnder(tb_all_results[i], "url", urljoin(hrefs[h]))
                     ELSE StoredUnder(tb_all_results[i], "website", urljoin(hrefs[h]))

(***************************************************************************)
(* Claims about the scoring of the cluster engine (SpecCluster)            *)
(***************************************************************************)
\* Per field of a group scored its candidates (text, score), in match order.
CandidatesOf(scored) ==
    ExtractedData(<<>>, filter_results(scored.results, cl_args.value_filters))

HighestScore(vv_scores) == Max({vv_scores[i][2] : i \in 1..Len(vv_scores)})

\* The first candidate that has the highest score.
FirstOfTheBest(vv_scores) ==
    vv_scores[Min({i \in 1..Len(vv_scores) : vv_scores[i][2] = HighestScore(vv_scores)})]

(***************************************************************************)
(* C22  For every group scored and every field it has candidates for, the  *)
(* value kept is that of a candidate with the highest score, the first of  *)
(* them in match order.                                                    *)
(***************************************************************************)
C22_HighestScoreFirstSeen ==
    \A g \in 1..Len(cl_scored) :
        LET candidates == CandidatesOf(cl_scored[g])
        IN  \A f \in 1..Len(candidates) :
                DictGet(cl_scored[g].stage0, candidates[f][1])
                    = FirstOfTheBest(candidates[f][2])[1]

\* The cleanups of _select_group that change the text of a match, one after
\* the other: the padding, a leading ** and a trailing **.
Unpadded(text) == StripChars(Strip(text), {"|", " ", "\n"})
Unled(text) == IF StartsWith(text, Stars) THEN SubSeq(text, 3, Len(text)) ELSE text
Untrailed(text) == IF EndsWith(text, Stars) THEN SubSeq(text, 1, Len(text) - 2) ELSE text

CleanupsThatChanged(text) ==
    (IF Unpadded(text) # text THEN 1 ELSE 0)
    + (IF Unled(Unpadded(text)) # Unpadded(text) THEN 1 ELSE 0)
    + (IF Untrailed(Unled(Unpadded(text))) # Unled(Unpadded(text)) THEN 1 ELSE 0)

(***************************************************************************)
(* C23  For every match of a group scored whose first group does not open  *)
(* with "| |", the score _select_group gives it is the number of the three *)
(* cleanups that changed its text: of the padding, of a leading pair of    *)
(* stars and of a trailing pair of stars.                                  *)
(***************************************************************************)
C23_PointPerCleanup ==
    \A g \in 1..Len(cl_scored) : \A r \in 1..Len(cl_scored[g].results) :
        LET m == cl_scored[g].results[r][2]
        IN  ~StartsWith(m.first, <<"|", " ", "|">>) =>
                select_group(m)[2] = CleanupsThatChanged(m.text)

\* Every group has been scored.
AllScored == cl_pc # "idle" /\ cl_groups # <<>> /\ Len(cl_scored) = Len(cl_groups)

\* The first group, in the order they were scored, of the highest score.
FirstOfHighestScore ==
    cl_scored[Min({g \in 1..Len(cl_scored) :
                      \A h \in 1..Len(cl_scored) : cl_scored[h].score <= cl_scored[g].score})]

(***************************************************************************)
(* C24  Once every group is scored, the group the result is built on is    *)
(* the one of the highest score, the first of them in iteration order.     *)
(***************************************************************************)
C24_HighestScoreFirstCluster ==
    AllScored =>
        /\ cl_max.max_score_group_idx = FirstOfHighestScore.idx
        /\ cl_max.max_score_group = FirstOfHighestScore.extracted_dict

\* The pairs of distinct fields of a dict where the value of one is not empty
\* and occurs in the value of the other.
OverlappingPairs(extracted_dict) ==
    {pair \in SUBSET (1..Len(extracted_dict)) :
        /\ Cardinality(pair) = 2
        /\ \E k \in pair : \E j \in pair \ {k} :
               /\ extracted_dict[j][2] # <<>>
               /\ Contains(extracted_dict[k][2], extracted_dict[j][2])}

\* What a group scored lost to the overlaps: its score taken from what it
\* extracted, its bonus and its missing fields.
PointsLostToOverlaps(scored) ==
    Len(scored.stage0) + preset_bonus(scored.stage0, cl_args.value_presets)
    - Cardinality(missing_required_fields_of(cl_args.required_fields, scored.extracted_dict))
    - scored.score

(***************************************************************************)
(* C25  Every group scored loses exactly one point for every pair of       *)
(* distinct fields where the value of one is a non-empty substring of the  *)
(* value of the other, two fields of the same non-empty value included.    *)
(***************************************************************************)
C25_PointPerOverlappingPair ==
    \A g \in 1..Len(cl_scored) :
        PointsLostToOverlaps(cl_scored[g])
            = Cardinality(OverlappingPairs(cl_scored[g].extracted_dict))

(***************************************************************************)
(* Claims about the secondary fill and the final pass (SpecTitles,         *)
(* SpecCluster)                                                            *)
(***************************************************************************)
SecondaryFillDone == cl_pc \in {"cleanup", "returned"}

(***************************************************************************)
(* C26  After the secondary fill every field of the result of the winning  *)
(* group has the value it had before, and a field the fill added is one of *)
(* the required fields.                                                    *)
(***************************************************************************)
C26_FillKeepsWinnerValues ==
    SecondaryFillDone =>
        /\ \A field \in DictKeys(cl_max.max_score_group) :
               /\ field \in DictKeys(cl_filled)
               /\ DictGet(cl_filled, field) = DictGet(cl_max.max_score_group, field)
        /\ \A field \in DictKeys(cl_filled) \ DictKeys(cl_max.max_score_group) :
               \E i \in 1..Len(cl_args.required_fields) : cl_args.required_fields[i] = field

(***************************************************************************)
(* C27  The mapping returned has the fields the final pass started from,   *)
(* and the value returned for a field occurs in the value the field had    *)
(* before the pass: it is that value or a part of it.                      *)
(***************************************************************************)
C27_CleanupKeepsSubstrings ==
    cl_pc = "returned" =>
        /\ DictKeys(cl_result) = DictKeys(cl_filled)
        /\ \A field \in DictKeys(cl_result) :
               Contains(DictGet(cl_filled, field), DictGet(cl_result, field))

\* A mapping returned where the pass replaced the value of a field, next to a
\* field it left as it was.
C27_Witness ==
    /\ cl_pc = "returned"
    /\ \E field \in DictKeys(cl_result) : DictGet(cl_result, field) # DictGet(cl_filled, field)
    /\ \E field \in DictKeys(cl_result) : DictGet(cl_result, field) = DictGet(cl_filled, field)

(***************************************************************************)
(* Claims about the sharded loader (SpecShards)                            *)
(***************************************************************************)
\* The files, as <<folder, index>>, that hold a record of a loader class.
FilesWithRecordsOf(c) ==
    {file \in ItemFolders \X (0..(MaxEarlierShards + Cardinality(LoaderClasses))) :
        /\ file[2] < Len(sh_folders[file[1]])
        /\ \E r \in 1..Len(sh_folders[file[1]][file[2] + 1]) :
               sh_folders[file[1]][file[2] + 1][r] = c}

(***************************************************************************)
(* C28  Whatever the order the loader classes are first used in, all the   *)
(* samples of a loader class are in one numbered file, in the folder named *)
(* after the default_item_class of that class.                             *)
(***************************************************************************)
C28_ShardOfOwnItemClass ==
    \A c \in LoaderClasses :
        /\ Cardinality(FilesWithRecordsOf(c)) <= 1
        /\ \A file \in FilesWithRecordsOf(c) : file[1] = default_item_class(c)

(***************************************************************************)
(* Claims about the two methods and the seen-set (SpecMethods)             *)
(***************************************************************************)
\* What a method accepts for the headers when it runs alone on the seen-set
\* the pass started with.
AcceptedAlone(method, headers, seen) ==
    AcceptResults(Candidates(tb_tables, headers, method),
                  CallParams(tb_columns, tb_dedupe, tb_constraints),
                  [results |-> <<>>, seen |-> seen, fields |-> {}]).results

\* The non-empty ids of the results of a list.
IdsOf(results) ==
    UNION {{unique_id(results[i].data, tb_dedupe)[1],
            unique_id(results[i].data, tb_dedupe)[2]} \ {<<>>} : i \in 1..Len(results)}

(***************************************************************************)
(* C29  In every pass over a ranked header each of the two methods accepts *)
(* the rows it would accept running alone on the seen-set the pass started *)
(* with, and the pass adds to the seen-set the ids of the rows of the list *)
(* it keeps and no other.                                                  *)
(***************************************************************************)
C29_MethodsIndependent ==
    [][tb_pc = "loop" =>
          LET pass == tb_visited'[Len(tb_visited')]
          IN  /\ pass.by_method[1] = AcceptedAlone(FALSE, pass.headers, tb_seen)
              /\ pass.by_method[2] = AcceptedAlone(TRUE, pass.headers, tb_seen)
              /\ tb_seen' = tb_seen \cup IdsOf(pass.parsed)]_vars

(***************************************************************************)
(* Claims about tables without a header row (SpecTable)                    *)
(***************************************************************************)
\* The tables of the response that have no eligible header row.
HeaderlessTables ==
    {t \in 1..Len(tb_tables) : find_table_headers(tb_tables[t], tb_columns) = <<>>}

(***************************************************************************)
(* C30  parse_tables_from_response does not raise for a response that has  *)
(* a table with no eligible header row.                                    *)
(***************************************************************************)
C30_HeaderlessTableDoesNotRaise ==
    HeaderlessTables # {} => tb_pc # "raised"
====
